---- MODULE Spec2Model ----
(***************************************************************************)
(* Model of the Saleor storefront smoke-test harness: the Playwright       *)
(* locator semantics the page objects rely on, the page objects            *)
(* (BasePage, HomePage, ProductPage, CartPage, CheckoutPage) and the       *)
(* scenarios TC-001..TC-007 of system-basics.smoke.spec.ts.                *)
(***************************************************************************)
EXTENDS Integers, Sequences, FiniteSets, TLC

VARIABLES
  page,     \* the browser page under the page objects: url, status, dom, ...
  last,     \* the call made last on a page object and what it gave back
  srv,      \* the storefront: which routes it serves and with what markup
  tc,       \* the scenario the runner was asked for
  pc,       \* the position inside the scenario body (0: not running)
  outcome,  \* the outcome the runner recorded for the scenario
  caught,   \* TC-003: the position whose failure the catch block received
  runs,     \* the scenarios finished so far, with the conditions they ran in
  faults,   \* how many transient failures the environment has produced
  checked,  \* the verify-loaded checks made in a row on the page just now
  sh,       \* the runner script under way: its arguments, position, exit
  suite,    \* a run of the whole suite in the test runner
  fs,       \* the files of the cart route in the storefront's source tree
  fi,       \* the fault-injection script under way
  rt        \* the retry loop of a helper under way

vars == <<page, last, srv, tc, pc, outcome, caught, runs, faults, checked, sh,
          suite, fs, fi, rt>>

pageVars == <<page, last, checked>>
scenarioVars == <<srv, tc, pc, outcome, caught, runs, faults>>
\* the scripts and the suite runner
scriptVars == <<sh, suite, fs, fi>>
\* the retry loops of the helpers
helperVars == <<rt>>

----------------------------------------------------------------------------
(* Bounds *)

MaxDom == 2       \* nodes of a document in the page-object specification
MaxItems == 1     \* line items the cart can hold
MaxRuns == 2      \* scenarios executed in one behaviour
MaxFaults == 1    \* transient failures (timeouts) in one behaviour
MaxChecks == 2    \* repetitions of one verify-loaded check on a page
MaxScripts == 2   \* runs of the fault-injection scripts in one behaviour
MaxRetries == 4   \* attempts a helper is allowed in one call

----------------------------------------------------------------------------
(* Text and selectors.  A text is a sequence of tokens; :has-text(t) holds *)
(* when t occurs as a contiguous part of the node's text.                  *)

NoText == << >>

HasText(text, sub) ==
  \/ sub = NoText
  \/ \E i \in 1..Len(text) :
       /\ i + Len(sub) - 1 <= Len(text)
       /\ SubSeq(text, i, i + Len(sub) - 1) = sub

\* one selector candidate: a CSS condition and an optional :has-text()
Sel(base, text) == [base |-> base, text |-> text]
Css(base) == Sel(base, NoText)

\* a DOM node: the CSS conditions it satisfies, its text, visible, disabled
Node(sels, text, vis) == [sels |-> sels, text |-> text, vis |-> vis, dis |-> FALSE]

Matches(n, s) == (s.base = "*" \/ s.base \in n.sels) /\ HasText(n.text, s.text)

\* page.locator('a, b, c'): a selector list matches the union of its parts
MatchesAny(n, cands) == \E c \in 1..Len(cands) : Matches(n, cands[c])

\* a locator: selector list plus narrowing (0: none, k: the k-th match)
Loc(cands, nth) == [cands |-> cands, nth |-> nth]
First(loc) == [loc EXCEPT !.nth = 1]

RECURSIVE MatchIdxFrom(_, _, _)
MatchIdxFrom(dom, cands, i) ==
  IF i > Len(dom) THEN << >>
  ELSE IF MatchesAny(dom[i], cands)
       THEN <<i>> \o MatchIdxFrom(dom, cands, i + 1)
       ELSE MatchIdxFrom(dom, cands, i + 1)

\* the matching nodes, in document order
MatchIdx(dom, cands) == MatchIdxFrom(dom, cands, 1)

count(dom, loc) == Len(MatchIdx(dom, loc.cands))

\* resolution of a locator for an action on one element (strict mode)
Resolve(dom, loc) ==
  LET m == MatchIdx(dom, loc.cands) IN
  IF loc.nth = 0
  THEN IF Len(m) = 0 THEN [st |-> "none", node |-> 0]
       ELSE IF Len(m) = 1 THEN [st |-> "one", node |-> m[1]]
       ELSE [st |-> "strict", node |-> 0]
  ELSE IF Len(m) >= loc.nth THEN [st |-> "one", node |-> m[loc.nth]]
       ELSE [st |-> "none", node |-> 0]

\* locator.waitFor({state}): "ok", or the error it rejects with
WaitFor(pg, loc, state) ==
  IF ~pg.alive THEN "closed"
  ELSE LET r == Resolve(pg.dom, loc) IN
       IF r.st = "strict" THEN "strict"
       ELSE IF r.st = "none" THEN "timeout"
       ELSE IF state = "attached" \/ pg.dom[r.node].vis THEN "ok"
       ELSE "timeout"

\* locator.click(options): the node clicked (0: none) and the error, if any
Click(pg, loc, force) ==
  IF ~pg.alive THEN [err |-> "closed", node |-> 0]
  ELSE LET r == Resolve(pg.dom, loc) IN
       IF r.st = "strict" THEN [err |-> "strict", node |-> 0]
       ELSE IF r.st = "none" THEN [err |-> "timeout", node |-> 0]
       ELSE IF pg.dom[r.node].vis /\ (force \/ ~pg.dom[r.node].dis)
            THEN [err |-> "ok", node |-> r.node]
       ELSE IF force THEN [err |-> "notvisible", node |-> 0]
       ELSE [err |-> "timeout", node |-> 0]

\* expect(locator).toBeVisible()
toBeVisible(pg, loc) == WaitFor(pg, loc, "visible")

----------------------------------------------------------------------------
(* The browser page.  A URL is a host and the segments of its path.        *)

Url(host, path) == [host |-> host, path |-> path]

BaseHost == "localhost:3000"

\* /.*localhost:3000.*/
HomeUrlPattern(u) == u.host = BaseHost
\* /.*\/products\/.*/ : a segment "products" followed by a slash
ProductUrlPattern(u) == \E i \in 1..Len(u.path) : u.path[i] = "products" /\ i < Len(u.path)
\* /.*\/cart.*/
CartUrlPattern(u) == \E i \in 1..Len(u.path) : u.path[i] = "cart"
\* /.*\/checkout.*/
CheckoutUrlPattern(u) == \E i \in 1..Len(u.path) : u.path[i] = "checkout"

UrlMatches(pattern, u) ==
  CASE pattern = "home" -> HomeUrlPattern(u)
    [] pattern = "product" -> ProductUrlPattern(u)
    [] pattern = "cart" -> CartUrlPattern(u)
    [] pattern = "checkout" -> CheckoutUrlPattern(u)

\* expect(page).toHaveURL(pattern)
toHaveURL(pg, pattern) ==
  IF ~pg.alive THEN "closed" ELSE IF UrlMatches(pattern, pg.url) THEN "ok" ELSE "url"

----------------------------------------------------------------------------
(* BasePage *)

\* BasePage.waitForPageLoad
waitForPageLoad(pg) ==
  IF ~pg.alive THEN "closed" ELSE IF pg.loaded THEN "ok" ELSE "timeout"

\* BasePage.takeScreenshot
takeScreenshot(pg) == IF pg.alive THEN "ok" ELSE "closed"

\* BasePage.waitForElement
waitForElement(pg, loc) == WaitFor(pg, loc, "visible")

\* BasePage.safeClick: the node clicked and the error raised, if any
safeClick(pg, loc) ==
  LET w == waitForElement(pg, loc) IN
  IF w # "ok" THEN [err |-> w, node |-> 0] ELSE Click(pg, loc, FALSE)

\* a probe that lets every error but the timeout through
elementExistsTimeoutOnly(pg, loc) ==
  LET w == WaitFor(pg, loc, "attached") IN
  IF w = "ok" THEN [err |-> "ok", ret |-> TRUE]
  ELSE IF w = "timeout" THEN [err |-> "ok", ret |-> FALSE]
  ELSE [err |-> w, ret |-> FALSE]

\* BasePage.elementExists: what it returns, and the error it raises ("ok": none)
elementExists(pg, loc) ==
  LET w == WaitFor(pg, loc, "attached") IN
  IF w = "ok" THEN [err |-> "ok", ret |-> TRUE] ELSE [err |-> "ok", ret |-> FALSE]

Exists(pg, loc) == elementExists(pg, loc).ret

\* TestHelpers.elementExists(selector)
helperElementExists(pg, selector) ==
  LET w == WaitFor(pg, Loc(<<selector>>, 0), "attached") IN
  IF w = "ok" THEN [err |-> "ok", ret |-> TRUE] ELSE [err |-> "ok", ret |-> FALSE]

\* BasePage.verifyPageLoaded
verifyPageLoaded(pg, pattern) == toHaveURL(pg, pattern)

----------------------------------------------------------------------------
(* HomePage *)

navigation == Loc(<<Css("nav"), Css("[data-testid=navigation]")>>, 0)
productList == Loc(<<Css("[data-testid=product-list]"), Css(".product-list"), Css("main")>>, 0)
productCards == Loc(<<Css("[data-testid=product-card]"), Css(".product-card"),
                      Css("[href*=/products/]")>>, 0)
cartBadge == Loc(<<Css("[data-testid=cart-badge]"), Css(".cart-badge"), Css(".cart-count")>>, 0)
footer == Loc(<<Css("footer")>>, 0)

\* HomePage.verifyHomepageLoaded: "ok", or the failure it raises
verifyHomepageLoaded(pg) ==
  IF toHaveURL(pg, "home") # "ok" THEN toHaveURL(pg, "home")
  ELSE IF toBeVisible(pg, productList) # "ok" THEN toBeVisible(pg, productList)
  ELSE LET hasProducts == Exists(pg, First(productCards))
           hasMainContent == Exists(pg, productList)
       IN IF hasProducts \/ hasMainContent THEN "ok" ELSE "assert"

\* HomePage.getFirstProduct
getFirstProduct == First(productCards)

\* HomePage.clickFirstProduct (through clickProduct)
clickFirstProduct(pg) == safeClick(pg, getFirstProduct)

\* HomePage.verifyNavigationVisible / verifyFooterVisible
verifyVisibleIfExists(pg, loc) ==
  IF Exists(pg, loc) THEN toBeVisible(pg, loc) ELSE "ok"

\* HomePage.waitForCartBadge: page.waitForSelector takes the first match
waitForCartBadge(pg) ==
  pg.alive /\ WaitFor(pg, First(cartBadge), "visible") = "ok"

----------------------------------------------------------------------------
(* CartPage and CheckoutPage *)

cartTitle == Loc(<<Css("[data-testid=cart-title]"), Css(".cart-title"),
                   Sel("h1", <<"Cart">>), Sel("h1", <<"Shopping">>)>>, 0)
checkoutTitle == Loc(<<Css("[data-testid=checkout-title]"), Css(".checkout-title"),
                       Sel("h1", <<"Checkout">>)>>, 0)
cartItems == Loc(<<Css("[data-testid=cart-item]"), Css(".cart-item"), Css(".cart-line-item")>>, 0)
emptyCartMessage == Loc(<<Css("[data-testid=empty-cart]"), Css(".empty-cart"),
                          Sel("*", <<"empty">>), Sel("*", <<"no items">>)>>, 0)

\* a load check that also asks for line items
verifyCartPageLoadedNonEmpty(pg) ==
  IF toHaveURL(pg, "cart") # "ok" THEN toHaveURL(pg, "cart")
  ELSE IF waitForPageLoad(pg) # "ok" THEN waitForPageLoad(pg)
  ELSE toBeVisible(pg, First(cartItems))

\* CartPage.verifyCartPageLoaded
verifyCartPageLoaded(pg) ==
  IF toHaveURL(pg, "cart") # "ok" THEN toHaveURL(pg, "cart") ELSE waitForPageLoad(pg)

\* CartPage.getCartItemsCount
getCartItemsCount(pg) == IF pg.alive THEN count(pg.dom, cartItems) ELSE 0

\* CartPage.isCartEmpty
isCartEmpty(pg) ==
  IF Exists(pg, emptyCartMessage) THEN TRUE ELSE getCartItemsCount(pg) = 0

\* CheckoutPage.verifyCheckoutPageLoaded
verifyCheckoutPageLoaded(pg) ==
  IF toHaveURL(pg, "checkout") # "ok" THEN toHaveURL(pg, "checkout")
  ELSE waitForPageLoad(pg)

----------------------------------------------------------------------------
(* ProductPage *)

productTitle == Loc(<<Css("[data-testid=product-title]"), Css(".product-title"), Css("h1")>>, 0)
productPrice == Loc(<<Css("[data-testid=product-price]"), Css(".product-price"), Css(".price")>>, 0)
variantSelector == Loc(<<Css("[data-testid=variant-selector]"), Css(".variant-selector"),
                         Css(".product-variants")>>, 0)
sizeOptions == Loc(<<Css("[data-testid=size-option]"), Css(".size-option"),
                     Css("[data-variant-type=size] button")>>, 0)
addToCartButton == Loc(<<Css("[data-testid=add-to-cart]"), Css(".add-to-cart"),
                         Sel("button", <<"Add to Cart">>)>>, 0)
quantitySelector == Loc(<<Css("[data-testid=quantity]"), Css(".quantity"),
                          Css("input[type=number]")>>, 0)

\* this.variantSelector.locator('button, select option'): the buttons and
\* options below an element the variantSelector matches
variantChoices == Loc(<<Css("variantSelector button"), Css("variantSelector select option")>>, 0)

\* ProductPage.verifyProductPageLoaded
verifyProductPageLoaded(pg) ==
  IF toHaveURL(pg, "product") # "ok" THEN toHaveURL(pg, "product")
  ELSE IF toBeVisible(pg, productTitle) # "ok" THEN toBeVisible(pg, productTitle)
  ELSE LET hasPriceOrButton == Exists(pg, productPrice) \/ Exists(pg, addToCartButton)
       IN IF hasPriceOrButton THEN "ok" ELSE "assert"

SizeS == <<"S">>
SizeM == <<"M">>

\* the selector patterns built from the size by selectSize
sizeSelectors(size) ==
  << Sel("[data-testid=size-option]", size),
     Sel("[data-variant=size]", size),
     Sel(".size-option", size),
     Sel("button", size),
     Css(IF size = SizeS THEN "[data-size=S]" ELSE "[data-size=M]"),
     Css(IF size = SizeS THEN "[value=S]" ELSE "[value=M]") >>

\* result of a selection: the error raised ("ok": none), the node clicked
\* (0: none) and the pattern that led to the click (0: none)
Picked(err, node, via) == [err |-> err, node |-> node, via |-> via]

\* first loop of selectSize, from pattern i on
RECURSIVE selectSizeExplicit(_, _, _)
selectSizeExplicit(pg, size, i) ==
  IF i > Len(sizeSelectors(size)) THEN Picked("ok", 0, 0)
  ELSE LET element == Loc(<<sizeSelectors(size)[i]>>, 0) IN
       IF Exists(pg, element)
       THEN LET c == safeClick(pg, element) IN Picked(c.err, c.node, i)
       ELSE selectSizeExplicit(pg, size, i + 1)

\* second loop of selectSize: variants.nth(i) whose text includes the size
RECURSIVE selectSizeGeneric(_, _, _)
selectSizeGeneric(pg, size, i) ==
  IF i > count(pg.dom, variantChoices) THEN Picked("ok", 0, 0)
  ELSE LET variant == [variantChoices EXCEPT !.nth = i]
           text == pg.dom[Resolve(pg.dom, variant).node].text
       IN IF HasText(text, size)
          THEN LET c == safeClick(pg, variant) IN Picked(c.err, c.node, 7)
          ELSE selectSizeGeneric(pg, size, i + 1)

\* ProductPage.selectSize
selectSize(pg, size) ==
  LET a == selectSizeExplicit(pg, size, 1) IN
  IF a.via # 0 THEN a
  ELSE IF Exists(pg, variantSelector) /\ selectSizeGeneric(pg, size, 1).via # 0
       THEN selectSizeGeneric(pg, size, 1)
  ELSE LET firstVariant == First(sizeOptions) IN
       IF Exists(pg, firstVariant)
       THEN LET c == safeClick(pg, firstVariant) IN Picked(c.err, c.node, 8)
       ELSE Picked("ok", 0, 0)

variantSelectors ==
  << Css("button[data-testid*=variant]"), Css("button[data-variant]"),
     Css(".variant-option button"), Css(".product-variants button"),
     Css("[role=radiogroup] button"), Css("fieldset button") >>

\* ProductPage.selectAnyVariant, from pattern i on
RECURSIVE selectAnyVariantFrom(_, _)
selectAnyVariantFrom(pg, i) ==
  IF i > Len(variantSelectors) THEN Picked("ok", 0, 0)
  ELSE IF ~pg.alive THEN Picked("closed", 0, 0)
  ELSE LET variants == Loc(<<variantSelectors[i]>>, 0)
           firstVariant == First(variants)
       IN IF count(pg.dom, variants) > 0 /\ Exists(pg, firstVariant)
             /\ safeClick(pg, firstVariant).err = "ok"
          THEN Picked("ok", safeClick(pg, firstVariant).node, i)
          ELSE selectAnyVariantFrom(pg, i + 1)

selectAnyVariant(pg) == selectAnyVariantFrom(pg, 1)

\* locator.fill(text): needs a visible, enabled element
Fill(pg, loc) == Click(pg, loc, FALSE).err

\* BasePage.safeFill
safeFill(pg, loc) ==
  IF waitForElement(pg, loc) # "ok" THEN waitForElement(pg, loc) ELSE Fill(pg, loc)

\* ProductPage.verifyProductInformation
verifyProductInformation(pg) ==
  IF toBeVisible(pg, productTitle) # "ok" THEN toBeVisible(pg, productTitle)
  ELSE IF pg.dom[Resolve(pg.dom, productTitle).node].text = NoText THEN "assert"
  ELSE IF ~Exists(pg, productPrice) THEN "ok"
  ELSE IF toBeVisible(pg, productPrice) # "ok" THEN toBeVisible(pg, productPrice)
  ELSE IF pg.dom[Resolve(pg.dom, productPrice).node].text = NoText THEN "assert"
  ELSE "ok"

\* ProductPage.setQuantity
setQuantity(pg) ==
  IF Exists(pg, quantitySelector) THEN safeFill(pg, quantitySelector) ELSE "ok"

\* ProductPage.clickAddToCart: normal click, then the forced click; the wait
\* for a success indicator that follows swallows its own failure
clickAddToCart(pg) ==
  LET c == safeClick(pg, addToCartButton) IN
  IF c.err = "ok" THEN [err |-> "ok", node |-> c.node, forced |-> FALSE]
  ELSE LET f == Click(pg, addToCartButton, TRUE) IN
       [err |-> f.err, node |-> f.node, forced |-> TRUE]

\* what the try block of waitForAddToCartEnabled ends with: the wait for the
\* visible button, then the poll of waitForFunction, whose
\* document.querySelector rejects the :has-text() in its selector list
gatePoll(pg) ==
  LET shown == WaitFor(pg, addToCartButton, "visible")
  IN IF shown # "ok" THEN shown ELSE "syntax"

\* a gate that lets the failure of its poll through
waitForAddToCartEnabledRaising(pg) ==
  LET poll == gatePoll(pg) IN [err |-> poll, poll |-> poll]

\* ProductPage.waitForAddToCartEnabled: the catch swallows every failure
waitForAddToCartEnabled(pg) == [err |-> "ok", poll |-> gatePoll(pg)]

\* The steps of addToCartWithSpecs over the results of its calls: any (of
\* selectAnyVariant), sz (of selectSize), qty (of setQuantity), gate (of
\* waitForAddToCartEnabled), c (of clickAddToCart); sized and counted tell
\* whether the size and the quantity step are taken
addToCartSteps(any, sized, sz, counted, qty, gate, c) ==
  LET none == [err |-> "ok", node |-> 0, forced |-> FALSE, step |-> 0,
               variant |-> FALSE, poll |-> "none"]
      variant == any.node # 0 \/ (sized /\ sz.node # 0)
  IN
  IF any.err # "ok"
  THEN [none EXCEPT !.err = any.err, !.step = 1]
  ELSE IF sized /\ sz.err # "ok"
  THEN [none EXCEPT !.err = sz.err, !.step = 2, !.variant = any.node # 0]
  ELSE IF counted /\ qty # "ok"
  THEN [none EXCEPT !.err = qty, !.step = 3, !.variant = variant]
  ELSE IF gate.err # "ok"
  THEN [none EXCEPT !.err = gate.err, !.step = 4, !.variant = variant,
                    !.poll = gate.poll]
  ELSE [err |-> c.err, node |-> c.node, forced |-> c.forced, step |-> 5,
        variant |-> variant, poll |-> gate.poll]

\* ProductPage.addToCartWithSpecs(size, quantity).  Besides the error and
\* the node of clickAddToCart the result tells the step the call ended in
\* (1 selectAnyVariant, 2 selectSize, 3 setQuantity, 4 the gate, 5 the
\* click), whether a variant was clicked on the way, and how the poll of
\* the gate ended ("none": the gate was not reached)
addToCartWithSpecs(pg, size) ==
  addToCartSteps(selectAnyVariant(pg),
                 size # NoText /\ Exists(pg, sizeOptions), selectSize(pg, size),
                 Exists(pg, quantitySelector), setQuantity(pg),
                 waitForAddToCartEnabled(pg), clickAddToCart(pg))

----------------------------------------------------------------------------
(* Documents and pages the page objects are exercised on *)

HomeNodes ==
  { Node({"main"}, NoText, TRUE), Node({"main"}, NoText, FALSE),
    Node({".product-list"}, NoText, TRUE),
    Node({".product-card"}, NoText, TRUE),
    Node({"[href*=/products/]"}, NoText, TRUE),
    Node({"[href*=/products/]"}, NoText, FALSE),
    Node({"nav"}, NoText, TRUE), Node({"nav"}, NoText, FALSE),
    Node({"[data-testid=navigation]"}, NoText, TRUE) }

ProductNodes ==
  { Node({"h1"}, <<"Tee">>, TRUE),
    Node({".price"}, <<"$", "9">>, TRUE),
    Node({"[data-testid=add-to-cart]", "button"}, <<"Add to Cart">>, TRUE),
    [Node({"[data-testid=add-to-cart]", "button"}, <<"Add to Cart">>, TRUE)
       EXCEPT !.dis = TRUE],
    Node({"[data-testid=size-option]", "button"}, <<"S">>, TRUE),
    Node({"[data-testid=size-option]", "button"}, <<"X", "S">>, TRUE),
    Node({"[data-size=S]"}, NoText, TRUE),
    Node({"[data-size=S]"}, NoText, FALSE),
    Node({"button[data-variant]", "button"}, <<"Red">>, TRUE),
    Node({"fieldset button", "button"}, <<"M">>, FALSE) }

CartNodes ==
  { Node({"[data-testid=cart-item]"}, <<"Tee">>, TRUE),
    Node({".cart-line-item"}, <<"Mug">>, TRUE),
    Node({".cart-item"}, <<"empty", "jar">>, TRUE),
    Node({"[data-testid=empty-cart]"}, <<"empty">>, TRUE),
    Node({"h1"}, <<"404">>, TRUE) }

NodePools == {HomeNodes, ProductNodes, CartNodes}

SeqUpTo(S, n) == UNION {[1..k -> S] : k \in 0..n}

Urls ==
  { Url("about:blank", << >>),
    Url(BaseHost, << >>),
    Url(BaseHost, <<"products", "tee">>),
    Url(BaseHost, <<"products">>),
    Url(BaseHost, <<"cart">>),
    Url(BaseHost, <<"checkout">>) }

\* alive: the page is open; loaded: DOMContentLoaded fires within the timeout
Liveness == {<<TRUE, TRUE>>, <<TRUE, FALSE>>, <<FALSE, FALSE>>}

Page(url, status, dom, al) ==
  [url |-> url, status |-> status, dom |-> dom, alive |-> al[1], loaded |-> al[2]]

Locators ==
  [navigation |-> navigation, productList |-> productList,
   firstProduct |-> First(productCards), productPrice |-> productPrice,
   sizeOptions |-> sizeOptions, addToCartButton |-> addToCartButton,
   emptyCartMessage |-> emptyCartMessage]

\* the locators the page objects hand to elementExists
ProbedLocs == DOMAIN Locators

\* the locators the page objects hand to safeClick
ClickedLocs == {"firstProduct", "addToCartButton"}

\* what a call gave back: the error raised ("ok": none), the value
\* returned, the node clicked, the pattern used, the outcome of the wait below
Result(op, loc, err, ret, node, via, wait) ==
  [op |-> op, loc |-> loc, err |-> err, ret |-> ret, node |-> node,
   via |-> via, wait |-> wait]

NoCall == Result("none", "none", "ok", FALSE, 0, 0, "none")

\* no runner script is under way
NoScript ==
  [script |-> "none", mode |-> "basic", report |-> "false", at |-> "done",
   probed |-> FALSE, suite |-> "none", exit |-> -1, out |-> {}]

\* a file that is not there
Absent == "absent"

\* no script of the fault-injection kit was run: the script and the place it
\* is at, its exit status, the files when it started (start) and when the
\* first script started (first), what it printed, the cp commands it ran,
\* the answers read, the command that failed, how many scripts were run (n)
\* and the one before it (prev)
NoRun ==
  [script |-> "none", at |-> "done", exit |-> -1, start |-> Absent,
   injected |-> FALSE, out |-> {}, cps |-> 0, answer |-> "none",
   delete |-> "none", failed |-> "none", first |-> Absent, n |-> 0,
   prev |-> [script |-> "none", exit |-> -1]]

\* no suite run and no fault-injection script is under way; the cart route
\* is in place
IdleRunner ==
  /\ suite = [own |-> << >>, next |-> 0, running |-> {}, pc |-> 0, pages |-> 0,
              page |-> 0,
              bound |-> [homePage |-> 0, productPage |-> 0, cartPage |-> 0,
                         checkoutPage |-> 0],
              lastAct |-> [po |-> "none", on |-> 0], reported |-> << >>]
  /\ fs = [dir |-> TRUE, page |-> "v1", backup |-> Absent, disabled |-> Absent]
  /\ fi = NoRun

\* no helper loop is under way: the helper (fn), its arguments (max: the
\* number of attempts allowed, base: the base delay), the loop counter i,
\* the attempts made (calls), the clicks that went through, the waits made,
\* the attempt whose result was returned (ret), the attempt whose error was
\* raised (err; -1: an error of the helper's own)
NoLoop ==
  [fn |-> "none", max |-> 0, base |-> 0, at |-> "idle", i |-> 0, calls |-> 0,
   clicks |-> 0, waits |-> << >>, ret |-> 0, err |-> 0]

\* no verify-loaded check was made on the page yet
NoCheck == [kind |-> "none", err |-> "ok", n |-> 0]

IdleScenario ==
  /\ srv = [cart |-> TRUE, items |-> 0, home |-> "full", product |-> "simple"]
  /\ tc = 1 /\ pc = 0 /\ outcome = "none" /\ caught = 0
  /\ runs = << >> /\ faults = 0

InitPage ==
  /\ \E pool \in NodePools, u \in Urls, al \in Liveness :
       \E dom \in SeqUpTo(pool, MaxDom) :
         page = Page(u, 200, dom, al)
  /\ last = NoCall /\ checked = NoCheck /\ rt = NoLoop
  /\ IdleScenario /\ sh = NoScript /\ IdleRunner

ElementExists(n) ==
  /\ last = NoCall
  /\ last' = Result("elementExists", n, elementExists(page, Locators[n]).err,
                    elementExists(page, Locators[n]).ret, 0, 0,
                    WaitFor(page, Locators[n], "attached"))
  /\ checked' = NoCheck
  /\ UNCHANGED <<page, scenarioVars, scriptVars, helperVars>>

HelperElementExists(n) ==
  /\ last = NoCall
  /\ Len(Locators[n].cands) >= 1
  /\ LET selector == Locators[n].cands[1] IN
     last' = Result("helperElementExists", n, helperElementExists(page, selector).err,
                    helperElementExists(page, selector).ret, 0, 0,
                    WaitFor(page, Loc(<<selector>>, 0), "attached"))
  /\ checked' = NoCheck
  /\ UNCHANGED <<page, scenarioVars, scriptVars, helperVars>>

WaitForElement(n) ==
  /\ last = NoCall
  /\ last' = Result("waitForElement", n, waitForElement(page, Locators[n]), FALSE, 0, 0,
                    WaitFor(page, Locators[n], "visible"))
  /\ checked' = NoCheck
  /\ UNCHANGED <<page, scenarioVars, scriptVars, helperVars>>

SafeClick(n) ==
  /\ last = NoCall
  /\ last' = Result("safeClick", n, safeClick(page, Locators[n]).err, FALSE,
                    safeClick(page, Locators[n]).node, 0,
                    WaitFor(page, Locators[n], "visible"))
  /\ checked' = NoCheck
  /\ UNCHANGED <<page, scenarioVars, scriptVars, helperVars>>

\* what the verify-loaded check of a page type gives on a page
verifyLoaded(kind, pg) ==
  CASE kind = "home" -> verifyHomepageLoaded(pg)
    [] kind = "product" -> verifyProductPageLoaded(pg)
    [] kind = "cart" -> verifyCartPageLoaded(pg)
    [] kind = "checkout" -> verifyCheckoutPageLoaded(pg)

\* a check that reloads the page it has looked at
VerifyLoadedReloading(kind) ==
  /\ last = NoCall
  /\ checked.kind = kind => checked.n < MaxChecks
  /\ last' = Result("verifyLoaded", kind, verifyLoaded(kind, page), FALSE, 0, 0, "none")
  /\ checked' = [kind |-> kind, err |-> verifyLoaded(kind, page),
                 n |-> IF checked.kind = kind THEN checked.n + 1 ELSE 1]
  /\ page' = [page EXCEPT !.loaded = FALSE]
  /\ UNCHANGED <<scenarioVars, scriptVars, helperVars>>

\* one of the verify...Loaded checks, called on the page as it is; the
\* checks only read the page
VerifyLoaded(kind) ==
  /\ last = NoCall
  /\ checked.kind = kind => checked.n < MaxChecks
  /\ last' = Result("verifyLoaded", kind, verifyLoaded(kind, page), FALSE, 0, 0, "none")
  /\ checked' = [kind |-> kind, err |-> verifyLoaded(kind, page),
                 n |-> IF checked.kind = kind THEN checked.n + 1 ELSE 1]
  /\ UNCHANGED <<page, scenarioVars, scriptVars, helperVars>>

ClickFirstProduct ==
  /\ last = NoCall
  /\ last' = Result("clickFirstProduct", "firstProduct", clickFirstProduct(page).err,
                    FALSE, clickFirstProduct(page).node, 0, "none")
  /\ checked' = NoCheck
  /\ UNCHANGED <<page, scenarioVars, scriptVars, helperVars>>

SelectSize(size) ==
  /\ last = NoCall
  /\ LET r == selectSize(page, size) IN
     last' = Result("selectSize", IF size = SizeS THEN "S" ELSE "M", r.err, FALSE,
                    r.node, r.via, "none")
  /\ checked' = NoCheck
  /\ UNCHANGED <<page, scenarioVars, scriptVars, helperVars>>

SelectAnyVariant ==
  /\ last = NoCall
  /\ LET r == selectAnyVariant(page) IN
     last' = Result("selectAnyVariant", "variantSelectors", r.err, FALSE, r.node, r.via, "none")
  /\ checked' = NoCheck
  /\ UNCHANGED <<page, scenarioVars, scriptVars, helperVars>>

\* the result of addToCartWithSpecs: ret tells whether a variant was
\* clicked, via the step the call ended in, wait how the gate's poll ended
AddToCartWithSpecs(size) ==
  /\ last = NoCall
  /\ LET a == addToCartWithSpecs(page, size) IN
     last' = Result(IF a.forced THEN "addToCartForced" ELSE "addToCartWithSpecs",
                    IF size = SizeS THEN "S" ELSE "M", a.err, a.variant,
                    a.node, a.step, a.poll)
  /\ checked' = NoCheck
  /\ UNCHANGED <<page, scenarioVars, scriptVars, helperVars>>

IsCartEmpty ==
  /\ last = NoCall
  /\ last' = Result("isCartEmpty", "cartItems", "ok", isCartEmpty(page), 0, 0, "none")
  /\ checked' = NoCheck
  /\ UNCHANGED <<page, scenarioVars, scriptVars, helperVars>>

\* the caller takes the result; the page object is ready for the next call
Return ==
  /\ last # NoCall
  /\ last' = NoCall
  /\ UNCHANGED <<page, checked, scenarioVars, scriptVars, helperVars>>

NextPage ==
  \/ Return
  \/ \E n \in ProbedLocs : ElementExists(n)
  \/ \E n \in ProbedLocs : HelperElementExists(n)
  \/ \E n \in ClickedLocs : WaitForElement(n)
  \/ \E n \in ClickedLocs : SafeClick(n)
  \/ \E kind \in {"home", "product", "cart", "checkout"} : VerifyLoaded(kind)
  \/ ClickFirstProduct
  \/ \E size \in {SizeS, SizeM} : SelectSize(size)
  \/ SelectAnyVariant
  \/ \E size \in {SizeS, SizeM} : AddToCartWithSpecs(size)
  \/ IsCartEmpty

\* the page objects called on an arbitrary page
SpecPage == InitPage /\ [][NextPage]_vars

----------------------------------------------------------------------------
(* The storefront at http://localhost:3000, as far as the scenarios see it *)

HomeShapes == {"full", "bare", "cards"}
ProductShapes == {"simple", "sized", "unbuyable", "untitled"}

Shown(sels, text) == Node(sels, text, TRUE)

HomeDom(s) ==
  (CASE s.home = "full" -> << Shown({"nav"}, NoText), Shown({"main"}, NoText),
                              Shown({"[href*=/products/]"}, <<"Tee">>) >>
     [] s.home = "bare" -> << Shown({"main"}, NoText) >>
     [] s.home = "cards" -> << Shown({"[href*=/products/]"}, <<"Tee">>) >>)
  \o (IF s.items > 0 THEN << Shown({".cart-count"}, <<"1">>) >> ELSE << >>)

ProductDom(s) ==
  CASE s.product = "simple" ->
         << Shown({"h1"}, <<"Tee">>), Shown({".price"}, <<"$", "9">>),
            Shown({"[data-testid=add-to-cart]", "button"}, <<"Add to Cart">>) >>
    [] s.product = "sized" ->
         << Shown({"h1"}, <<"Tee">>), Shown({".price"}, <<"$", "9">>),
            Shown({"[data-testid=size-option]", "button"}, <<"S">>),
            Shown({"[data-testid=add-to-cart]", "button"}, <<"Add to Cart">>) >>
    [] s.product = "unbuyable" ->
         << Shown({"h1"}, <<"Tee">>), Shown({".price"}, <<"$", "9">>) >>
    [] s.product = "untitled" -> << Shown({".price"}, <<"$", "9">>) >>

CartDom(s) ==
  << Shown({"h1"}, <<"Cart">>) >>
  \o (IF s.items = 0 THEN << Shown({".empty-cart"}, <<"empty">>) >>
      ELSE [i \in 1..s.items |-> Shown({"[data-testid=cart-item]"}, <<"Tee">>)])

CheckoutDom == << Shown({"h1"}, <<"Checkout">>) >>

\* what the framework answers for a route without a page file
NotFoundDom == << Shown({"h1"}, <<"404">>) >>

\* the page after a navigation to the path that the storefront answered;
\* a missing cart page gives the not-found document under the same URL
Serve(s, path) ==
  LET u == Url(BaseHost, path) IN
  IF path = << >> THEN Page(u, 200, HomeDom(s), <<TRUE, TRUE>>)
  ELSE IF path = <<"cart">>
       THEN IF s.cart THEN Page(u, 200, CartDom(s), <<TRUE, TRUE>>)
            ELSE Page(u, 404, NotFoundDom, <<TRUE, TRUE>>)
  ELSE IF path = <<"checkout">> THEN Page(u, 200, CheckoutDom, <<TRUE, TRUE>>)
  ELSE Page(u, 200, ProductDom(s), <<TRUE, TRUE>>)

\* the page a fresh browser context starts with
BlankPage == Page(Url("about:blank", << >>), 200, << >>, <<TRUE, TRUE>>)

----------------------------------------------------------------------------
(* The scenarios of system-basics.smoke.spec.ts, one await per position *)

Step(op, arg) == [op |-> op, arg |-> arg]

TC001 == << Step("goto", "home"), Step("verifyLoaded", "home"), Step("takeScreenshot", "") >>

TC002 == << Step("goto", "home"), Step("verifyLoaded", "home"),
            Step("clickFirstProduct", ""), Step("verifyLoaded", "product"),
            Step("verifyProductInformation", ""), Step("takeScreenshot", "") >>

TC003 == << Step("goto", "home"), Step("clickFirstProduct", ""),
            Step("verifyLoaded", "product"),
            Step("addToCartWithSpecs", "S"), Step("goto", "home"),
            Step("waitForCartBadge", ""), Step("takeScreenshot", "") >>

TC004 == << Step("goto", "cart"), Step("verifyLoaded", "cart"),
            Step("isCartEmpty", ""), Step("takeScreenshot", "") >>

TC005 == << Step("goto", "checkout"), Step("verifyLoaded", "checkout"),
            Step("takeScreenshot", "") >>

TC006 == << Step("goto", "home"), Step("verifyLoaded", "home"),
            Step("clickFirstProduct", ""), Step("verifyLoaded", "product"),
            Step("goto", "cart"), Step("verifyLoaded", "cart"),
            Step("goto", "checkout"), Step("verifyLoaded", "checkout"),
            Step("goto", "home"), Step("verifyLoaded", "home"),
            Step("takeScreenshot", "") >>

TC007 == << Step("goto", "home"), Step("verifyLoaded", "home"),
            Step("verifyVisibleIfExists", "navigation"),
            Step("verifyVisibleIfExists", "footer"), Step("takeScreenshot", "") >>

Scenarios == <<TC001, TC002, TC003, TC004, TC005, TC006, TC007>>

\* the positions of TC-003 inside its try block
InTry(t, i) == t = 3 /\ i \in 4..7

\* the position of the catch block of TC-003
CatchPc == Len(TC003) + 1

Route(kind) ==
  CASE kind = "home" -> << >>
    [] kind = "cart" -> <<"cart">>
    [] kind = "checkout" -> <<"checkout">>

\* a catch block that lets the scenario end normally
catchOutcomeNoSkip(shot) == IF shot # "ok" THEN "failed" ELSE "passed"

\* the catch block of TC-003: log, screenshot, test.skip(!!error, ...)
catchOutcome(shot) == IF shot # "ok" THEN "failed" ELSE "skipped"

\* what the runner keeps of a finished scenario: its outcome, the position
\* that raised first (0: none), the storefront it ran against and the
\* transient failures counted up to its end
Run(t, o, at, s, n) ==
  [tc |-> t, outcome |-> o, raisedAt |-> at, cart |-> s.cart, items |-> s.items,
   faults |-> n]

\* the scenario ends; its page and context are closed
Finish(o, at, f) ==
  /\ outcome' = o
  /\ runs' = Append(runs, Run(tc, o, at, srv, faults + f))
  /\ pc' = 0 /\ caught' = 0
  /\ page' = BlankPage
  /\ faults' = faults + f

\* the call at the current position returned, leaving the page as pg
Proceed(pg) ==
  IF pc = Len(Scenarios[tc])
  THEN Finish("passed", 0, 0)
  ELSE /\ pc' = pc + 1 /\ page' = pg
       /\ UNCHANGED <<outcome, caught, runs, faults>>

\* the call at the current position raised, leaving the page as pg;
\* f = 1 when a transient failure of the environment made it raise
Raise(pg, f) ==
  IF InTry(tc, pc)
  THEN /\ caught' = pc /\ pc' = CatchPc /\ page' = pg
       /\ faults' = faults + f
       /\ UNCHANGED <<outcome, runs>>
  ELSE Finish("failed", pc, f)

Settle(err, pg) == IF err = "ok" THEN Proceed(pg) ELSE Raise(pg, 0)

At(op) == pc \in 1..Len(Scenarios[tc]) /\ Scenarios[tc][pc].op = op

\* a transient failure the environment may still produce
MayFail == faults < MaxFaults

\* the scenario the runs of this behaviour select (--grep "TC-00k")
InitScenario ==
  /\ srv \in [cart : BOOLEAN, items : 0..MaxItems, home : HomeShapes,
              product : ProductShapes]
  /\ tc \in 1..Len(Scenarios)
  /\ page = BlankPage /\ last = NoCall /\ checked = NoCheck /\ rt = NoLoop /\ sh = NoScript
  /\ IdleRunner
  /\ pc = 0 /\ outcome = "none" /\ caught = 0
  /\ runs = << >> /\ faults = 0

\* the runner starts the scenario: new page, beforeEach builds the page objects
StartScenario ==
  /\ pc = 0 /\ Len(runs) < MaxRuns
  /\ pc' = 1 /\ outcome' = "running" /\ caught' = 0
  /\ page' = BlankPage
  /\ UNCHANGED <<last, checked, scriptVars, helperVars, srv, tc, runs, faults>>

\* HomePage.goto, CartPage.goto, CheckoutPage.goto: page.goto, then
\* waitForPageLoad; the navigation or the load wait may time out
Goto ==
  /\ At("goto")
  /\ LET to == Serve(srv, Route(Scenarios[tc][pc].arg))
         slow == [to EXCEPT !.loaded = FALSE]
     IN \/ Settle(waitForPageLoad(to), to)
        \/ MayFail /\ Raise(page, 1)
        \/ MayFail /\ waitForPageLoad(slow) # "ok" /\ Raise(slow, 1)
  /\ UNCHANGED <<last, checked, scriptVars, helperVars, srv, tc>>

\* verifyHomepageLoaded, verifyProductPageLoaded, verifyCartPageLoaded,
\* verifyCheckoutPageLoaded as called by the scenarios
ScenarioVerifyLoaded ==
  /\ At("verifyLoaded")
  /\ LET kind == Scenarios[tc][pc].arg IN
     Settle(verifyLoaded(kind, page), page)
  /\ UNCHANGED <<last, checked, scriptVars, helperVars, srv, tc>>

\* homePage.clickFirstProduct: the click on a product link opens the product
ScenarioClickFirstProduct ==
  /\ At("clickFirstProduct")
  /\ LET c == clickFirstProduct(page) IN
     Settle(c.err, IF c.err = "ok" THEN Serve(srv, <<"products", "tee">>) ELSE page)
  /\ UNCHANGED <<last, checked, scriptVars, helperVars, srv, tc>>

ScenarioVerifyProductInformation ==
  /\ At("verifyProductInformation")
  /\ Settle(verifyProductInformation(page), page)
  /\ UNCHANGED <<last, checked, scriptVars, helperVars, srv, tc>>

\* productPage.addToCartWithSpecs('S', 1): a click on the enabled button
\* puts a line item into the cart
ScenarioAddToCart ==
  /\ At("addToCartWithSpecs")
  /\ LET a == addToCartWithSpecs(page, SizeS) IN
     /\ Settle(a.err, page)
     /\ srv' = IF a.err = "ok" /\ a.node # 0 /\ ~page.dom[a.node].dis
                  /\ srv.items < MaxItems
               THEN [srv EXCEPT !.items = @ + 1] ELSE srv
  /\ UNCHANGED <<last, checked, scriptVars, helperVars, tc>>

\* homePage.waitForCartBadge: returns a boolean the scenario ignores
ScenarioWaitForCartBadge ==
  /\ At("waitForCartBadge")
  /\ waitForCartBadge(page) \in BOOLEAN
  /\ Proceed(page)
  /\ UNCHANGED <<last, checked, scriptVars, helperVars, srv, tc>>

\* cartPage.isCartEmpty: the result is only logged
ScenarioIsCartEmpty ==
  /\ At("isCartEmpty")
  /\ isCartEmpty(page) \in BOOLEAN
  /\ Proceed(page)
  /\ UNCHANGED <<last, checked, scriptVars, helperVars, srv, tc>>

\* homePage.verifyNavigationVisible, homePage.verifyFooterVisible
ScenarioVerifyVisibleIfExists ==
  /\ At("verifyVisibleIfExists")
  /\ Settle(verifyVisibleIfExists(page,
              IF Scenarios[tc][pc].arg = "navigation" THEN navigation ELSE footer), page)
  /\ UNCHANGED <<last, checked, scriptVars, helperVars, srv, tc>>

\* takeScreenshot at a position of the scenario body; writing it may fail
ScenarioTakeScreenshot ==
  /\ At("takeScreenshot")
  /\ \/ Settle(takeScreenshot(page), page)
     \/ MayFail /\ Raise(page, 1)
  /\ UNCHANGED <<last, checked, scriptVars, helperVars, srv, tc>>

\* the catch block of TC-003
CatchBlock ==
  /\ tc = 3 /\ pc = CatchPc
  /\ \/ Finish(catchOutcome(takeScreenshot(page)), caught, 0)
     \/ MayFail /\ Finish(catchOutcome("timeout"), caught, 1)
  /\ UNCHANGED <<last, checked, scriptVars, helperVars, srv, tc>>

\* fi-tc-004-inject-fault.sh / fi-tc-004-restore-normal.sh between two runs:
\* the cart page file is renamed away or put back
InjectFault ==
  /\ pc = 0 /\ srv.cart
  /\ srv' = [srv EXCEPT !.cart = FALSE]
  /\ UNCHANGED <<page, last, checked, scriptVars, helperVars, tc, pc, outcome, caught, runs, faults>>

RestoreNormal ==
  /\ pc = 0 /\ ~srv.cart
  /\ srv' = [srv EXCEPT !.cart = TRUE]
  /\ UNCHANGED <<page, last, checked, scriptVars, helperVars, tc, pc, outcome, caught, runs, faults>>

\* the cart the storefront shows to the next session changes
CartChanges ==
  /\ pc = 0
  /\ \E n \in 0..MaxItems : n # srv.items /\ srv' = [srv EXCEPT !.items = n]
  /\ UNCHANGED <<page, last, checked, scriptVars, helperVars, tc, pc, outcome, caught, runs, faults>>

Next ==
  \/ StartScenario
  \/ Goto
  \/ ScenarioVerifyLoaded
  \/ ScenarioClickFirstProduct
  \/ ScenarioVerifyProductInformation
  \/ ScenarioAddToCart
  \/ ScenarioWaitForCartBadge
  \/ ScenarioIsCartEmpty
  \/ ScenarioVerifyVisibleIfExists
  \/ ScenarioTakeScreenshot
  \/ CatchBlock
  \/ InjectFault
  \/ RestoreNormal
  \/ CartChanges

\* the scenarios run one after the other against the storefront
Spec == InitScenario /\ [][Next]_vars

----------------------------------------------------------------------------
(* The runner scripts run-fast-smoke.sh and run-smoke-tests.sh.  Both run  *)
(* under set -e: a command that fails outside a condition ends the script  *)
(* with the status of that command.                                        *)

\* what the suite reports at its end: every scenario passed; none failed
\* but some were skipped; some failed
SuiteReports == {"passed", "skipped", "failed"}

\* the exit status of playwright test (and of the npm script around it)
suiteExit(r) == IF r = "failed" THEN 1 ELSE 0

\* the first argument of run-smoke-tests.sh ("all": any other word)
Modes == {"basic", "headed", "debug", "ui", "all", "--help"}

\* the second argument of run-smoke-tests.sh ("only": any other word)
Reports == {"true", "false", "only"}

\* what the user answers at the prompt of check_saleor_status ("eof": the
\* input is closed and read fails)
Choices == {"enter", "q", "eof"}

StartScript(script, mode, report) ==
  [NoScript EXCEPT !.script = script, !.mode = mode, !.report = report,
                   !.at = IF script = "fast" THEN "probe" ELSE "main"]

\* the script ends with the given status
Exit(code, said) ==
  sh' = [sh EXCEPT !.at = "done", !.exit = code, !.out = @ \cup said]

\* the script goes on at the given place
Move(to, said) == sh' = [sh EXCEPT !.at = to, !.out = @ \cup said]

InitScripts ==
  /\ sh \in {StartScript("fast", "basic", "false")}
             \cup {StartScript("full", m, r) : m \in Modes, r \in Reports}
  /\ page = BlankPage /\ last = NoCall /\ checked = NoCheck /\ rt = NoLoop
  /\ IdleScenario /\ IdleRunner

\* run-fast-smoke.sh: the curl probe
FastProbe ==
  /\ sh.script = "fast" /\ sh.at = "probe"
  /\ \E up \in BOOLEAN :
       IF up
       THEN sh' = [sh EXCEPT !.at = "suite", !.probed = TRUE,
                             !.out = @ \cup {"is running"}]
       ELSE Exit(1, {"not running"})
  /\ UNCHANGED <<pageVars, scenarioVars, helperVars, suite, fs, fi>>

\* run-fast-smoke.sh: npx playwright test as a plain command under set -e
FastSuite ==
  /\ sh.script = "fast" /\ sh.at = "suite"
  /\ \E r \in SuiteReports :
       sh' = IF suiteExit(r) # 0
             THEN [sh EXCEPT !.suite = r, !.at = "done", !.exit = suiteExit(r)]
             ELSE [sh EXCEPT !.suite = r, !.at = "verdict"]
  /\ UNCHANGED <<pageVars, scenarioVars, helperVars, suite, fs, fi>>

\* run-fast-smoke.sh: TEST_EXIT_CODE=$?, the message, exit $TEST_EXIT_CODE
FastVerdict ==
  /\ sh.script = "fast" /\ sh.at = "verdict"
  /\ LET code == suiteExit(sh.suite) IN
     Exit(code, IF code = 0 THEN {"all passed"} ELSE {"some failed"})
  /\ UNCHANGED <<pageVars, scenarioVars, helperVars, suite, fs, fi>>

\* main of run-smoke-tests.sh: the arguments, the usage text
Main ==
  /\ sh.script = "full" /\ sh.at = "main"
  /\ IF sh.mode = "--help" THEN Exit(0, {"usage"}) ELSE Move("prerequisites", {})
  /\ UNCHANGED <<pageVars, scenarioVars, helperVars, suite, fs, fi>>

\* check_prerequisites: node present and recent enough, npm present
CheckPrerequisites ==
  /\ sh.script = "full" /\ sh.at = "prerequisites"
  /\ \E node \in {"missing", "old", "ok"}, npm \in BOOLEAN :
       IF node = "ok" /\ npm THEN Move("install", {}) ELSE Exit(1, {"error"})
  /\ UNCHANGED <<pageVars, scenarioVars, helperVars, suite, fs, fi>>

\* install_dependencies: package.json, npm install, npm run test:install
InstallDependencies ==
  /\ sh.script = "full" /\ sh.at = "install"
  /\ \E package \in BOOLEAN, installed \in BOOLEAN, browsers \in BOOLEAN :
       IF ~package THEN Exit(1, {"error"})
       ELSE IF ~installed \/ ~browsers THEN Exit(1, {})
       ELSE Move("probe", {})
  /\ UNCHANGED <<pageVars, scenarioVars, helperVars, suite, fs, fi>>

\* a probe that lets the script go on after the second failure
check_saleor_statusOnce(up1, choice, up2) ==
  IF up1 THEN [go |-> TRUE, probed |-> TRUE, said |-> {"is running"}]
  ELSE IF choice # "enter" THEN [go |-> FALSE, probed |-> FALSE, said |-> {"not running"}]
  ELSE [go |-> TRUE, probed |-> up2, said |-> {"not running"}]

\* check_saleor_status: the probe, the prompt, the second probe; go tells
\* whether the function returns (otherwise the script exits with status 1)
check_saleor_status(up1, choice, up2) ==
  IF up1 THEN [go |-> TRUE, probed |-> TRUE, said |-> {"is running"}]
  ELSE IF choice # "enter" THEN [go |-> FALSE, probed |-> FALSE, said |-> {"not running"}]
  ELSE IF up2 THEN [go |-> TRUE, probed |-> TRUE, said |-> {"not running", "now running"}]
  ELSE [go |-> FALSE, probed |-> FALSE, said |-> {"not running", "error"}]

CheckSaleorStatus ==
  /\ sh.script = "full" /\ sh.at = "probe"
  /\ \E up1 \in BOOLEAN, choice \in Choices, up2 \in BOOLEAN :
       LET c == check_saleor_status(up1, choice, up2) IN
       IF c.go
       THEN sh' = [sh EXCEPT !.at = "suite", !.probed = c.probed, !.out = @ \cup c.said]
       ELSE Exit(1, c.said)
  /\ UNCHANGED <<pageVars, scenarioVars, helperVars, suite, fs, fi>>

\* run_tests as the condition of the if in main: the npm script of the
\* mode, the message, return $TEST_EXIT_CODE; then the branch of the if up
\* to the report
RunTests ==
  /\ sh.script = "full" /\ sh.at = "suite"
  /\ \E r \in SuiteReports :
       sh' = IF suiteExit(r) = 0
             THEN [sh EXCEPT !.suite = r, !.out = @ \cup {"all passed"},
                      !.at = IF sh.report = "true" THEN "report" ELSE "success"]
             ELSE [sh EXCEPT !.suite = r, !.out = @ \cup {"some failed", "failed"},
                      !.at = IF sh.report # "false" THEN "report" ELSE "failure"]
  /\ UNCHANGED <<pageVars, scenarioVars, helperVars, suite, fs, fi>>

\* open_report in a branch of the if: npm run test:report and open are plain
\* commands under set -e
OpenReport ==
  /\ sh.script = "full" /\ sh.at = "report"
  /\ \E shown \in BOOLEAN :
       IF ~shown THEN Exit(1, {})
       ELSE Move(IF suiteExit(sh.suite) = 0 THEN "success" ELSE "failure", {"report"})
  /\ UNCHANGED <<pageVars, scenarioVars, helperVars, suite, fs, fi>>

\* the end of the two branches of the if in main
Verdict ==
  /\ sh.script = "full" /\ sh.at \in {"success", "failure"}
  /\ IF sh.at = "success" THEN Exit(0, {"completed"}) ELSE Exit(1, {})
  /\ UNCHANGED <<pageVars, scenarioVars, helperVars, suite, fs, fi>>

NextScripts ==
  \/ FastProbe
  \/ FastSuite
  \/ FastVerdict
  \/ Main
  \/ CheckPrerequisites
  \/ InstallDependencies
  \/ CheckSaleorStatus
  \/ RunTests
  \/ OpenReport
  \/ Verdict

\* a runner script from its start to its exit
SpecScripts == InitScripts /\ [][NextScripts]_vars

----------------------------------------------------------------------------
(* A run of the whole suite: the runner takes the scenarios of the file in *)
(* their order, one worker, the file configured as one serial group.       *)

\* test.describe.configure({ mode: 'serial' }) at the top level of the file
mode == "serial"

\* workers of the configuration
workers == 1

PageObjects == {"homePage", "productPage", "cartPage", "checkoutPage"}

\* the page object the scenario t calls at position i of its body
PageObjectOf(t, i) ==
  LET step == Scenarios[t][i] IN
  CASE step.op \in {"goto", "verifyLoaded"} ->
         (CASE step.arg = "home" -> "homePage"
            [] step.arg = "product" -> "productPage"
            [] step.arg = "cart" -> "cartPage"
            [] step.arg = "checkout" -> "checkoutPage")
    [] step.op \in {"verifyProductInformation", "addToCartWithSpecs"} -> "productPage"
    [] step.op = "isCartEmpty" -> "cartPage"
    [] step.op = "takeScreenshot" ->
         (CASE t = 2 -> "productPage" [] t = 4 -> "cartPage"
            [] t = 5 -> "checkoutPage" [] OTHER -> "homePage")
    [] OTHER -> "homePage"

\* a hook that builds each page object once and keeps it afterwards
beforeEachOnce(bound, p) ==
  [po \in PageObjects |-> IF bound[po] = 0 THEN p ELSE bound[po]]

\* test.beforeEach: the four page objects are built anew on the test's page
beforeEach(bound, p) == [po \in PageObjects |-> p]

\* what the bodies of the scenarios would give against the storefront as it
\* is; only TC-003 can end skipped
OwnOutcomes ==
  {own \in [1..Len(Scenarios) -> {"passed", "failed", "skipped"}] :
     \A t \in 1..Len(Scenarios) : own[t] = "skipped" => t = 3}

\* the serial group has a failed scenario
GroupFailed == mode = "serial" /\ \E i \in 1..Len(suite.reported) : suite.reported[i] = "failed"

InitSuite ==
  /\ \E own \in OwnOutcomes :
       suite = [own |-> own, next |-> 1, running |-> {}, pc |-> 0, pages |-> 0,
                page |-> 0,
                bound |-> [po \in PageObjects |-> 0],
                lastAct |-> [po |-> "none", on |-> 0], reported |-> << >>]
  /\ fs = [dir |-> TRUE, page |-> "v1", backup |-> Absent, disabled |-> Absent]
  /\ fi = NoRun
  /\ page = BlankPage /\ last = NoCall /\ checked = NoCheck /\ rt = NoLoop
  /\ IdleScenario /\ sh = NoScript

\* the worker takes the next scenario: a new page, then beforeEach
StartTest ==
  /\ suite.next \in 1..Len(Scenarios)
  /\ Cardinality(suite.running) < (IF mode = "serial" THEN 1 ELSE workers)
  /\ ~GroupFailed
  /\ suite' = [suite EXCEPT !.running = @ \cup {suite.next}, !.pc = 1,
                            !.pages = @ + 1, !.page = suite.pages + 1,
                            !.bound = beforeEach(@, suite.pages + 1),
                            !.lastAct = [po |-> "none", on |-> 0]]
  /\ UNCHANGED <<pageVars, scenarioVars, helperVars, sh, fs, fi>>

\* the body calls the page object of its next step
Act ==
  /\ suite.running # {} /\ suite.pc \in 1..Len(Scenarios[suite.next])
  /\ LET po == PageObjectOf(suite.next, suite.pc) IN
     suite' = [suite EXCEPT !.pc = @ + 1,
                            !.lastAct = [po |-> po, on |-> suite.bound[po]]]
  /\ UNCHANGED <<pageVars, scenarioVars, helperVars, sh, fs, fi>>

\* the body ends, at its end or where it raised; the page is closed
EndTest ==
  /\ suite.running # {} /\ suite.pc > 1
  /\ suite.pc > Len(Scenarios[suite.next]) \/ suite.own[suite.next] # "passed"
  /\ suite' = [suite EXCEPT !.running = {}, !.pc = 0, !.page = 0,
                            !.next = @ + 1,
                            !.lastAct = [po |-> "none", on |-> 0],
                            !.reported = Append(@, suite.own[suite.next])]
  /\ UNCHANGED <<pageVars, scenarioVars, helperVars, sh, fs, fi>>

\* serial mode: after a failure the rest of the group is skipped
SkipTest ==
  /\ suite.next \in 1..Len(Scenarios) /\ suite.running = {}
  /\ GroupFailed
  /\ suite' = [suite EXCEPT !.next = @ + 1, !.reported = Append(@, "skipped")]
  /\ UNCHANGED <<pageVars, scenarioVars, helperVars, sh, fs, fi>>

NextSuite ==
  \/ StartTest
  \/ Act
  \/ EndTest
  \/ SkipTest

SpecSuite == InitSuite /\ [][NextSuite]_vars

----------------------------------------------------------------------------
(* fi-tc-004-inject-fault.sh and fi-tc-004-restore-normal.sh on the files  *)
(* of the cart route: page.tsx, page.tsx.backup, page.tsx.disabled.  Both  *)
(* scripts run under set -e: a command that fails outside a condition ends *)
(* the script with the status of the command.                              *)

\* what a file can hold ("cut": what a copy that failed left behind)
Contents == {"v1", "v2", "cut"}

Files == Contents \cup {Absent}

\* what read hands to the script: a line, or "eof" when the input ended
Answers == {"y", "Y", "n", "N", "", "eof"}

\* a copy that keeps a target that is already there
cpNoClobber(f, from, to) ==
  [f EXCEPT ![to] = IF f[to] = Absent THEN f[from] ELSE f[to]]

\* cp from to
cp(f, from, to) == [f EXCEPT ![to] = f[from]]

\* mv from to
mv(f, from, to) == [f EXCEPT ![to] = f[from], ![from] = Absent]

\* a removal that leaves the file
rmKept(f, x) == f

\* rm x
rm(f, x) == [f EXCEPT ![x] = Absent]

\* what a cp that failed can leave at its target: what was there, or a part
cpFailed(f, to) == {f[to], "cut"}

\* a confirmation that takes everything but a refusal for a yes
confirmedUnlessNo(answer) == answer \notin {"n", "N", "eof"}

\* [ "$overwrite" != "y" ] && [ "$overwrite" != "Y" ] does not hold
confirmed(answer) == answer \in {"y", "Y"}

\* the script ends with the given status
FiExit(code) == fi' = [fi EXCEPT !.at = "done", !.exit = code]

\* the script ends with the given status after one more message
FiSay(said, code) ==
  fi' = [fi EXCEPT !.at = "done", !.exit = code, !.out = @ \cup {said}]

InitFault ==
  /\ fs \in {f \in [dir : BOOLEAN, page : Files, backup : Files, disabled : Files] :
               ~f.dir => (f.page = Absent /\ f.backup = Absent /\ f.disabled = Absent)}
  /\ fi = [NoRun EXCEPT !.first = fs]
  /\ suite = [own |-> << >>, next |-> 0, running |-> {}, pc |-> 0, pages |-> 0,
              page |-> 0,
              bound |-> [po \in PageObjects |-> 0],
              lastAct |-> [po |-> "none", on |-> 0], reported |-> << >>]
  /\ page = BlankPage /\ last = NoCall /\ checked = NoCheck /\ rt = NoLoop
  /\ IdleScenario /\ sh = NoScript

\* the user runs one of the two scripts
StartRun(script) ==
  /\ fi.at = "done" /\ fi.n < MaxScripts
  /\ fi' = [NoRun EXCEPT !.script = script, !.at = "check", !.start = fs,
                         !.first = fi.first, !.n = fi.n + 1,
                         !.prev = [script |-> fi.script, exit |-> fi.exit]]
  /\ UNCHANGED <<pageVars, scenarioVars, helperVars, sh, suite, fs>>

\* the checks of the storefront directory and of page.tsx, then the test
\* for an existing backup
InjectCheck ==
  /\ fi.script = "inject" /\ fi.at = "check"
  /\ IF ~fs.dir THEN FiSay("no storefront", 1)
     ELSE IF fs.page = Absent THEN FiSay("no page", 1)
     ELSE fi' = [fi EXCEPT !.at = IF fs.backup # Absent THEN "prompt" ELSE "backup"]
  /\ UNCHANGED <<pageVars, scenarioVars, helperVars, sh, suite, fs>>

\* the question whether to overwrite the backup; a read that fails ends
\* the script
InjectPrompt ==
  /\ fi.script = "inject" /\ fi.at = "prompt"
  /\ \E overwrite \in Answers :
       IF overwrite = "eof" THEN fi' = [fi EXCEPT !.at = "done", !.exit = 1, !.answer = overwrite]
       ELSE IF confirmed(overwrite) THEN fi' = [fi EXCEPT !.at = "backup", !.answer = overwrite]
       ELSE fi' = [fi EXCEPT !.at = "done", !.exit = 0, !.answer = overwrite,
                             !.out = @ \cup {"cancelled"}]
  /\ UNCHANGED <<pageVars, scenarioVars, helperVars, sh, suite, fs>>

\* cp page.tsx page.tsx.backup; a copy that fails ends the script and may
\* leave a part of the file
InjectBackup ==
  /\ fi.script = "inject" /\ fi.at = "backup"
  /\ \/ fs' = cp(fs, "page", "backup")
        /\ fi' = [fi EXCEPT !.at = "rename", !.cps = @ + 1]
     \/ \E left \in cpFailed(fs, "backup") :
          /\ fs' = [fs EXCEPT !.backup = left]
          /\ fi' = [fi EXCEPT !.at = "done", !.exit = 1, !.cps = @ + 1, !.failed = "cp"]
  /\ UNCHANGED <<pageVars, scenarioVars, helperVars, sh, suite>>

\* mv page.tsx page.tsx.disabled; a rename that fails ends the script, the
\* lines after it are not run
InjectRename ==
  /\ fi.script = "inject" /\ fi.at = "rename"
  /\ \/ fs' = mv(fs, "page", "disabled")
        /\ fi' = [fi EXCEPT !.at = "verify", !.injected = TRUE]
     \/ UNCHANGED fs /\ fi' = [fi EXCEPT !.at = "done", !.exit = 1, !.failed = "mv"]
  /\ UNCHANGED <<pageVars, scenarioVars, helperVars, sh, suite>>

\* the test of the three files after the injection
InjectVerify ==
  /\ fi.script = "inject" /\ fi.at = "verify"
  /\ IF fs.page = Absent /\ fs.disabled # Absent /\ fs.backup # Absent
     THEN fi' = [fi EXCEPT !.at = "guide", !.out = @ \cup {"injected"}]
     ELSE FiSay("not injected", 1)
  /\ UNCHANGED <<pageVars, scenarioVars, helperVars, sh, suite, fs>>

\* the closing instructions and exit 0
InjectDone ==
  /\ fi.script = "inject" /\ fi.at = "guide"
  /\ FiExit(0)
  /\ UNCHANGED <<pageVars, scenarioVars, helperVars, sh, suite, fs>>

\* a check that takes a missing backup for a finished restore
restorePrecheckNoBackup(f) ==
  IF ~f.dir THEN "exit 1"
  ELSE IF f.backup = Absent THEN "exit 0"
  ELSE "restore"

\* the checks the restore script starts with: the storefront directory,
\* the backup, and without a backup the page
restorePrecheck(f) ==
  IF ~f.dir THEN "exit 1"
  ELSE IF f.backup = Absent
  THEN (IF f.page # Absent THEN "exit 0" ELSE "exit 1")
  ELSE "restore"

RestoreCheck ==
  /\ fi.script = "restore" /\ fi.at = "check"
  /\ CASE restorePrecheck(fs) = "exit 1" -> FiSay("cannot restore", 1)
       [] restorePrecheck(fs) = "exit 0" -> FiSay("nothing to restore", 0)
       [] OTHER -> fi' = [fi EXCEPT !.at = IF fs.page # Absent THEN "prompt" ELSE "copy"]
  /\ UNCHANGED <<pageVars, scenarioVars, helperVars, sh, suite, fs>>

\* page.tsx is there: the question whether to overwrite it with the backup
RestorePrompt ==
  /\ fi.script = "restore" /\ fi.at = "prompt"
  /\ \E overwrite \in Answers :
       IF overwrite = "eof" THEN fi' = [fi EXCEPT !.at = "done", !.exit = 1, !.answer = overwrite]
       ELSE IF confirmed(overwrite) THEN fi' = [fi EXCEPT !.at = "copy", !.answer = overwrite]
       ELSE fi' = [fi EXCEPT !.at = "clean", !.answer = overwrite]
  /\ UNCHANGED <<pageVars, scenarioVars, helperVars, sh, suite, fs>>

\* cp page.tsx.backup page.tsx
RestoreCopy ==
  /\ fi.script = "restore" /\ fi.at = "copy"
  /\ \/ fs' = cp(fs, "backup", "page")
        /\ fi' = [fi EXCEPT !.at = "clean", !.cps = @ + 1]
     \/ \E left \in cpFailed(fs, "page") :
          /\ fs' = [fs EXCEPT !.page = left]
          /\ fi' = [fi EXCEPT !.at = "done", !.exit = 1, !.cps = @ + 1, !.failed = "cp"]
  /\ UNCHANGED <<pageVars, scenarioVars, helperVars, sh, suite>>

\* rm page.tsx.disabled when it is there
RestoreClean ==
  /\ fi.script = "restore" /\ fi.at = "clean"
  /\ IF fs.disabled = Absent
     THEN UNCHANGED fs /\ fi' = [fi EXCEPT !.at = "delete"]
     ELSE \/ fs' = rm(fs, "disabled") /\ fi' = [fi EXCEPT !.at = "delete"]
          \/ UNCHANGED fs /\ fi' = [fi EXCEPT !.at = "done", !.exit = 1, !.failed = "rm"]
  /\ UNCHANGED <<pageVars, scenarioVars, helperVars, sh, suite>>

\* the question whether to delete the backup, and rm page.tsx.backup
\* unless the answer is n or N
RestoreDelete ==
  /\ fi.script = "restore" /\ fi.at = "delete"
  /\ \E delete_backup \in Answers :
       IF delete_backup = "eof"
       THEN UNCHANGED fs /\ fi' = [fi EXCEPT !.at = "done", !.exit = 1, !.delete = delete_backup]
       ELSE IF delete_backup \in {"n", "N"}
       THEN UNCHANGED fs /\ fi' = [fi EXCEPT !.at = "verify", !.delete = delete_backup]
       ELSE \/ fs' = rm(fs, "backup")
               /\ fi' = [fi EXCEPT !.at = "verify", !.delete = delete_backup]
            \/ UNCHANGED fs
               /\ fi' = [fi EXCEPT !.at = "done", !.exit = 1, !.delete = delete_backup,
                                   !.failed = "rm"]
  /\ UNCHANGED <<pageVars, scenarioVars, helperVars, sh, suite>>

\* the test for page.tsx after the restore; the grep of the content is
\* the condition of an if and changes nothing
RestoreVerify ==
  /\ fi.script = "restore" /\ fi.at = "verify"
  /\ IF fs.page # Absent THEN FiSay("restored", 0) ELSE FiSay("not restored", 1)
  /\ UNCHANGED <<pageVars, scenarioVars, helperVars, sh, suite, fs>>

NextFault ==
  \/ \E script \in {"inject", "restore"} : StartRun(script)
  \/ InjectCheck
  \/ InjectPrompt
  \/ InjectBackup
  \/ InjectRename
  \/ InjectVerify
  \/ InjectDone
  \/ RestoreCheck
  \/ RestorePrompt
  \/ RestoreCopy
  \/ RestoreClean
  \/ RestoreDelete
  \/ RestoreVerify

SpecFault == InitFault /\ [][NextFault]_vars

----------------------------------------------------------------------------
(* The retry loops of utils/test-helpers.ts: GlobalTestUtils.retry and     *)
(* TestHelpers.safeClick.  What an attempt does (fn, or the wait for the   *)
(* element and the click) is the environment's: it succeeds or it throws.  *)

\* the pause of TestHelpers.safeClick between two attempts
ClickPause == 1000

BaseDelays == {1, 500, 1000}

\* a backoff that does not grow
delayFlat(baseDelay, i) == baseDelay

\* baseDelay * Math.pow(2, i)
delay(baseDelay, i) == baseDelay * 2^i

InitHelpers ==
  /\ rt = NoLoop
  /\ page = BlankPage /\ last = NoCall /\ checked = NoCheck
  /\ IdleScenario /\ sh = NoScript /\ IdleRunner

\* a test calls GlobalTestUtils.retry(fn, maxRetries, baseDelay)
CallRetry(maxRetries, baseDelay) ==
  /\ rt.at = "idle"
  /\ rt' = [NoLoop EXCEPT !.fn = "retry", !.max = maxRetries, !.base = baseDelay,
                          !.at = "loop"]
  /\ UNCHANGED <<pageVars, scenarioVars, scriptVars>>

\* one turn of the for loop of retry: the test i < maxRetries, the call of
\* fn, and the catch block up to the wait
RetryAttempt ==
  /\ rt.fn = "retry" /\ rt.at = "loop"
  /\ IF rt.i >= rt.max
     THEN rt' = [rt EXCEPT !.at = "raised", !.err = -1]
     ELSE \/ rt' = [rt EXCEPT !.calls = @ + 1, !.at = "returned", !.ret = rt.calls + 1]
          \/ rt' = [rt EXCEPT !.calls = @ + 1,
                              !.at = IF rt.i = rt.max - 1 THEN "raised" ELSE "wait",
                              !.err = IF rt.i = rt.max - 1 THEN rt.calls + 1 ELSE 0]
  /\ UNCHANGED <<pageVars, scenarioVars, scriptVars>>

\* await this.wait(delay), then i++
RetryWait ==
  /\ rt.fn = "retry" /\ rt.at = "wait"
  /\ rt' = [rt EXCEPT !.waits = Append(@, delay(rt.base, rt.i)), !.i = @ + 1,
                      !.at = "loop"]
  /\ UNCHANGED <<pageVars, scenarioVars, scriptVars>>

\* a test calls TestHelpers.safeClick(selector, retries)
CallSafeClick(retries) ==
  /\ rt.at = "idle"
  /\ rt' = [NoLoop EXCEPT !.fn = "safeClick", !.max = retries, !.at = "loop"]
  /\ UNCHANGED <<pageVars, scenarioVars, scriptVars>>

\* one turn of the for loop of safeClick: the test i < retries, the wait
\* for the visible element and the click, and the catch block up to the
\* pause; the function ends without a value when the loop ends
SafeClickAttempt ==
  /\ rt.fn = "safeClick" /\ rt.at = "loop"
  /\ IF rt.i >= rt.max
     THEN rt' = [rt EXCEPT !.at = "returned"]
     ELSE \/ rt' = [rt EXCEPT !.calls = @ + 1, !.clicks = @ + 1, !.at = "returned",
                              !.ret = rt.calls + 1]
          \/ rt' = [rt EXCEPT !.calls = @ + 1,
                              !.at = IF rt.i = rt.max - 1 THEN "raised" ELSE "wait",
                              !.err = IF rt.i = rt.max - 1 THEN rt.calls + 1 ELSE 0]
  /\ UNCHANGED <<pageVars, scenarioVars, scriptVars>>

\* await this.page.waitForTimeout(1000), then i++
SafeClickPause ==
  /\ rt.fn = "safeClick" /\ rt.at = "wait"
  /\ rt' = [rt EXCEPT !.waits = Append(@, ClickPause), !.i = @ + 1, !.at = "loop"]
  /\ UNCHANGED <<pageVars, scenarioVars, scriptVars>>

\* the caller has the result or the error; the helper can be called again
HelperReturn ==
  /\ rt.at \in {"returned", "raised"}
  /\ rt' = NoLoop
  /\ UNCHANGED <<pageVars, scenarioVars, scriptVars>>

NextHelpers ==
  \/ \E maxRetries \in 0..MaxRetries, baseDelay \in BaseDelays :
       CallRetry(maxRetries, baseDelay)
  \/ RetryAttempt
  \/ RetryWait
  \/ \E retries \in -1..MaxRetries : CallSafeClick(retries)
  \/ SafeClickAttempt
  \/ SafeClickPause
  \/ HelperReturn

SpecHelpers == InitHelpers /\ [][NextHelpers]_vars

----------------------------------------------------------------------------
(* The optional steps of the page objects: an existence probe, then a      *)
(* check or an action on the element.  The page may change between the     *)
(* probe and the action.                                                   *)

colorOptions == Loc(<<Css("[data-testid=color-option]"), Css(".color-option"),
                      Css("[data-variant-type=color] button")>>, 0)
continueShoppingButton == Loc(<<Css("[data-testid=continue-shopping]"),
                                Css(".continue-shopping"),
                                Sel("button", <<"Continue">>)>>, 0)
removeItemButton == Loc(<<Css("[data-testid=remove-item]"), Css(".remove-item"),
                          Sel("button", <<"Remove">>)>>, 0)

ColorRed == <<"Red">>

\* locator.filter({ hasText }): the matches of the locator that hold the text
Filter(loc, text) ==
  [loc EXCEPT !.cands = [c \in 1..Len(loc.cands) |-> Sel(loc.cands[c].base, text)]]

\* the guarded steps: the locator probed, the locator acted on, the action
Guarded ==
  [setQuantity |-> [probe |-> quantitySelector, target |-> quantitySelector,
                    act |-> "fill", settle |-> FALSE],
   selectColor |-> [probe |-> First(Filter(colorOptions, ColorRed)),
                    target |-> First(Filter(colorOptions, ColorRed)),
                    act |-> "click", settle |-> FALSE],
   continueShopping |-> [probe |-> continueShoppingButton,
                         target |-> continueShoppingButton,
                         act |-> "click", settle |-> FALSE],
   removeFirstItem |-> [probe |-> removeItemButton, target |-> First(removeItemButton),
                        act |-> "click", settle |-> TRUE]]

\* a guarded step whose probe sees pg and whose action meets now: the error
\* raised ("ok": none), what the probe said, the node acted on
guarded(g, pg, now) ==
  IF ~Exists(pg, g.probe) THEN [err |-> "ok", ret |-> FALSE, node |-> 0]
  ELSE LET c == IF g.act = "fill"
                THEN [err |-> safeFill(now, g.target), node |-> 0]
                ELSE safeClick(now, g.target)
       IN IF c.err = "ok" /\ g.settle
          THEN [err |-> waitForPageLoad(now), ret |-> TRUE, node |-> c.node]
          ELSE [err |-> c.err, ret |-> TRUE, node |-> c.node]

UiNodes ==
  { Node({"nav"}, NoText, TRUE), Node({"nav"}, NoText, FALSE),
    Node({"[data-testid=navigation]"}, NoText, TRUE),
    Node({"footer"}, NoText, TRUE), Node({"footer"}, NoText, FALSE) }

OptionNodes ==
  { Node({"input[type=number]"}, NoText, TRUE),
    Node({"input[type=number]"}, NoText, FALSE),
    Node({".color-option"}, ColorRed, TRUE),
    Node({".continue-shopping", "button"}, <<"Continue">>, TRUE),
    Node({".remove-item", "button"}, <<"Remove">>, TRUE) }

\* what the page can turn into while a step is under way: a node is taken
\* out of the document, or is hidden
Changes(pg) ==
  {pg}
  \cup {[pg EXCEPT !.dom = SubSeq(pg.dom, 1, k - 1) \o SubSeq(pg.dom, k + 1, Len(pg.dom))] :
          k \in 1..Len(pg.dom)}
  \cup {[pg EXCEPT !.dom[k].vis = FALSE] : k \in 1..Len(pg.dom)}

InitOptional ==
  /\ \E pool \in {UiNodes, OptionNodes}, al \in Liveness :
       \E dom \in SeqUpTo(pool, MaxDom) :
         page = Page(Url(BaseHost, << >>), 200, dom, al)
  /\ last = NoCall /\ checked = NoCheck /\ rt = NoLoop
  /\ IdleScenario /\ sh = NoScript /\ IdleRunner

\* HomePage.verifyNavigationVisible
VerifyNavigationVisible ==
  /\ last = NoCall
  /\ last' = Result("verifyVisible", "navigation", verifyVisibleIfExists(page, navigation),
                    Exists(page, navigation), 0, 0, "none")
  /\ UNCHANGED <<page, checked, scenarioVars, scriptVars, helperVars>>

\* HomePage.verifyFooterVisible
VerifyFooterVisible ==
  /\ last = NoCall
  /\ last' = Result("verifyVisible", "footer", verifyVisibleIfExists(page, footer),
                    Exists(page, footer), 0, 0, "none")
  /\ UNCHANGED <<page, checked, scenarioVars, scriptVars, helperVars>>

\* ProductPage.setQuantity, ProductPage.selectColor, CartPage.continueShopping,
\* CartPage.removeFirstItem
GuardedStep(name) ==
  /\ last = NoCall
  /\ \E now \in Changes(page) :
       LET r == guarded(Guarded[name], page, now) IN
       /\ last' = Result(name, "guarded", r.err, r.ret, r.node,
                         IF now = page THEN 0 ELSE 1, "none")
       /\ page' = now
  /\ UNCHANGED <<checked, scenarioVars, scriptVars, helperVars>>

NextOptional ==
  \/ Return
  \/ VerifyNavigationVisible
  \/ VerifyFooterVisible
  \/ \E name \in DOMAIN Guarded : GuardedStep(name)

SpecOptional == InitOptional /\ [][NextOptional]_vars

----------------------------------------------------------------------------
(* Properties of the page objects (SpecPage) *)

SizeOf(name) == IF name = "S" THEN SizeS ELSE SizeM

\* the candidate of a selector list that wins by list priority: the
\* earliest-listed candidate that matches a node (0: none matches)
Winner(dom, cands) ==
  LET hit == {c \in 1..Len(cands) : MatchIdx(dom, <<cands[c]>>) # << >>} IN
  IF hit = {} THEN 0 ELSE CHOOSE c \in hit : \A d \in hit : c <= d

\* the first node, in document order, that the winning candidate matches
PriorityNode(dom, cands) ==
  IF Winner(dom, cands) = 0 THEN 0
  ELSE MatchIdx(dom, <<cands[Winner(dom, cands)]>>)[1]

\* every node the selector list matches can be acted on
AllActionable(dom, cands) ==
  \A i \in 1..Len(dom) : MatchesAny(dom[i], cands) => dom[i].vis /\ ~dom[i].dis

\* C5: BasePage.elementExists and TestHelpers.elementExists never raise; they
\* return TRUE when the wait for the attached element succeeded and FALSE on
\* a timeout or any other error of the wait.
C5_ProbesNeverRaise ==
  last.op \in {"elementExists", "helperElementExists"} =>
    /\ last.err = "ok"
    /\ last.ret = (last.wait = "ok")

\* a probe whose wait failed with an error other than a timeout
C5_Witness ==
  /\ last.op = "elementExists"
  /\ last.wait \in {"strict", "closed"}
  /\ last.ret = FALSE

\* C6: if at least one candidate of a logical element with several
\* candidates matches a node, resolving the element (existence probe,
\* visibility wait, click) succeeds, whichever candidate matched.  Checked
\* where no candidate matches more than one node and every match is
\* visible and enabled, so that only the chain itself is at stake.
C6_AnyCandidateResolves ==
  ( /\ last.op \in {"elementExists", "waitForElement", "safeClick"}
    /\ page.alive
    /\ Len(Locators[last.loc].cands) > 1
    /\ Winner(page.dom, Locators[last.loc].cands) # 0
    /\ \A c \in 1..Len(Locators[last.loc].cands) :
         Len(MatchIdx(page.dom, <<Locators[last.loc].cands[c]>>)) <= 1
    /\ AllActionable(page.dom, Locators[last.loc].cands) )
  => /\ last.err = "ok"
     /\ last.op = "elementExists" => last.ret
     /\ last.op = "safeClick" => last.node # 0

\* C7: when several candidates match, the node acted on is the one matched
\* by the earliest-listed candidate, for the constructor locators
\* (productCards.first()) and for the lists of selectSize and selectAnyVariant.
C7_ListPriorityWins ==
  /\ (last.op = "clickFirstProduct" /\ last.err = "ok")
       => last.node = PriorityNode(page.dom, productCards.cands)
  /\ (last.op = "selectAnyVariant" /\ last.node # 0)
       => last.node = PriorityNode(page.dom, variantSelectors)
  /\ (last.op = "selectSize" /\ last.via \in 1..6 /\ last.node # 0)
       => last.node = PriorityNode(page.dom, sizeSelectors(SizeOf(last.loc)))

\* the winning candidate of the list matches more than one node
AmbiguousWinner(dom, cands) ==
  /\ Winner(dom, cands) # 0
  /\ Len(MatchIdx(dom, <<cands[Winner(dom, cands)]>>)) > 1

\* C8: when the winning candidate matches more than one node, the harness
\* acts on the first matching node and does not fail because of the
\* ambiguity; selectSize clicks a node even when the size selector it picked
\* matches several nodes.
C8_AmbiguityTakesFirstNode ==
  /\ ( /\ last.op = "safeClick" /\ page.alive
       /\ AmbiguousWinner(page.dom, Locators[last.loc].cands)
       /\ AllActionable(page.dom, Locators[last.loc].cands) )
     => /\ last.err = "ok"
        /\ last.node = PriorityNode(page.dom, Locators[last.loc].cands)
  /\ ( /\ last.op = "selectSize" /\ page.alive
       /\ AmbiguousWinner(page.dom, sizeSelectors(SizeOf(last.loc)))
       /\ AllActionable(page.dom, sizeSelectors(SizeOf(last.loc))) )
     => /\ last.err = "ok"
        /\ last.node = PriorityNode(page.dom, sizeSelectors(SizeOf(last.loc)))

\* a visible node the selector list matches
VisibleMatch(dom, cands) ==
  \E i \in 1..Len(dom) : MatchesAny(dom[i], cands) /\ dom[i].vis

\* C9: verifyHomepageLoaded passes whenever the URL matches the base host
\* and the primary content region or a product card is there; either one
\* alone is enough.
C9_HomeEitherSuffices ==
  ( /\ last.op = "verifyLoaded" /\ last.loc = "home"
    /\ page.alive /\ page.loaded
    /\ HomeUrlPattern(page.url)
    /\ \/ VisibleMatch(page.dom, productList.cands)
       \/ VisibleMatch(page.dom, productCards.cands) )
  => last.err = "ok"

\* the content locators of a page type, any of which shows that the page
\* has content of its own
ContentLocators(kind) ==
  CASE kind = "home" -> {productList, productCards}
    [] kind = "product" -> {productTitle, productPrice, addToCartButton}
    [] kind = "cart" -> {cartTitle, cartItems, emptyCartMessage}
    [] kind = "checkout" -> {checkoutTitle}

ContentPresent(kind, dom) ==
  \E loc \in ContentLocators(kind) : count(dom, loc) > 0

\* C2: for each of the four page types the verify-loaded operation passes
\* only if its URL-pattern check and at least one content-presence check
\* succeed; a URL match alone is never enough.
C2_VerifyNeedsUrlAndContent ==
  (last.op = "verifyLoaded" /\ last.err = "ok") =>
    /\ UrlMatches(last.loc, page.url)
    /\ ContentPresent(last.loc, page.dom)

----------------------------------------------------------------------------
(* Properties of the scenarios (Spec) *)

\* a transient failure of the environment hit run i
Flaky(i) == runs[i].faults # (IF i = 1 THEN 0 ELSE runs[i - 1].faults)

\* the call of the scenario that raised first in run i
RaisedOp(i) ==
  IF runs[i].raisedAt = 0 THEN "none" ELSE Scenarios[runs[i].tc][runs[i].raisedAt].op

\* C1: while the page behind /cart is missing (a not-found page under the
\* URL /cart), TC-004 fails at cartPage.verifyCartPageLoaded; once the page
\* is restored the same scenario passes.
C1_MissingCartRouteFailsTC004 ==
  \A i \in 1..Len(runs) :
    (runs[i].tc = 4 /\ ~Flaky(i)) =>
      IF runs[i].cart
      THEN runs[i].outcome = "passed"
      ELSE runs[i].outcome = "failed" /\ runs[i].raisedAt = 2

\* C3: in every scenario a failure of a goto (navigation or page-ready
\* wait) or of a verify-loaded step ends the scenario as failed, never as
\* passed or skipped, wherever the step stands.
C3_LoadFailuresFailScenario ==
  \A i \in 1..Len(runs) :
    RaisedOp(i) \in {"goto", "verifyLoaded"} => runs[i].outcome = "failed"

C10_CartItemCountIrrelevant ==
  \A i, j \in 1..Len(runs) :
    ( /\ runs[i].tc = 4 /\ runs[j].tc = 4
      /\ runs[i].cart /\ runs[j].cart
      /\ ~Flaky(i) /\ ~Flaky(j) )
    => /\ runs[i].outcome = runs[j].outcome
       /\ runs[i].raisedAt = runs[j].raisedAt
       /\ runs[i].outcome = "passed"

\* TC-004 passed once on an empty cart and once on a cart with items
C10_Witness ==
  \E i, j \in 1..Len(runs) :
    /\ runs[i].tc = 4 /\ runs[j].tc = 4
    /\ runs[i].cart /\ runs[j].cart
    /\ runs[i].items = 0 /\ runs[j].items > 0
    /\ runs[i].outcome = "passed" /\ runs[j].outcome = "passed"

----------------------------------------------------------------------------
(* Repeated checks and cart emptiness (SpecPage) *)

MessagePresent(pg) ==
  pg.alive /\ \E i \in 1..Len(pg.dom) : MatchesAny(pg.dom[i], emptyCartMessage.cands)

\* the line-item elements of the document
LineItems(pg) ==
  IF pg.alive THEN {i \in 1..Len(pg.dom) : MatchesAny(pg.dom[i], cartItems.cands)} ELSE {}

\* C12: isCartEmpty never raises and returns TRUE exactly when the
\* empty-state message is present or there is no line-item element; either
\* of the two alone makes it TRUE.
C12_EmptyIffMessageOrNoItems ==
  last.op = "isCartEmpty" =>
    /\ last.err = "ok"
    /\ last.ret = (MessagePresent(page) \/ LineItems(page) = {})

----------------------------------------------------------------------------
(* Size selection and add-to-cart (SpecPage) *)

\* the patterns of selectSize (1..6 explicit, 7 generic variant with the
\* size in its text, 8 first available variant) whose click would succeed
ClickablePatterns(pg, size) ==
  {i \in 1..Len(sizeSelectors(size)) :
      /\ Exists(pg, Loc(<<sizeSelectors(size)[i]>>, 0))
      /\ safeClick(pg, Loc(<<sizeSelectors(size)[i]>>, 0)).err = "ok"}
  \cup {v \in {7} :
      /\ Exists(pg, variantSelector)
      /\ \E i \in 1..count(pg.dom, variantChoices) :
           /\ HasText(pg.dom[Resolve(pg.dom, [variantChoices EXCEPT !.nth = i]).node].text, size)
           /\ safeClick(pg, [variantChoices EXCEPT !.nth = i]).err = "ok"}
  \cup {v \in {8} :
      /\ Exists(pg, First(sizeOptions))
      /\ safeClick(pg, First(sizeOptions)).err = "ok"}

\* C13: selectSize goes through its patterns until one click succeeds; a
\* click that fails on one pattern does not abort the selection, so when
\* some pattern can be clicked the selection ends with a click on one.
C13_SelectSizeMovesOn ==
  ( /\ last.op = "selectSize" /\ page.alive
    /\ ClickablePatterns(page, SizeOf(last.loc)) # {} )
  => /\ last.err = "ok"
     /\ last.via \in ClickablePatterns(page, SizeOf(last.loc))

\* the product shows variant controls: size options or variant buttons
VariantControls(dom) ==
  \E i \in 1..Len(dom) :
    MatchesAny(dom[i], sizeOptions.cands) \/ MatchesAny(dom[i], variantSelectors)

\* nothing on the product page carries the requested size
NoSizeData(dom, size) ==
  \A i \in 1..Len(dom) :
    /\ ~MatchesAny(dom[i], sizeSelectors(size))
    /\ ~HasText(dom[i].text, size)

\* C14: addToCartWithSpecs with a size, on a product that shows variant
\* controls but nothing for that size, clicks the first available variant
\* and goes on to the add-to-cart click; the missing size does not abort it.
\* Checked where every node is visible and enabled.
C14_MissingSizeFallsBack ==
  ( /\ last.op \in {"addToCartWithSpecs", "addToCartForced"}
    /\ page.alive
    /\ VariantControls(page.dom)
    /\ NoSizeData(page.dom, SizeOf(last.loc))
    /\ \A i \in 1..Len(page.dom) : page.dom[i].vis /\ ~page.dom[i].dis )
  => /\ last.via = 5
     /\ last.ret

\* C15: in addToCartWithSpecs the add-to-cart click is attempted only after
\* the readiness gate has returned; the gate never raises, so the click is
\* attempted whenever the gate was reached, however its poll ended, and
\* the forced click is attempted exactly when the normal click failed.
C15_ClickFollowsGate ==
  last.op \in {"addToCartWithSpecs", "addToCartForced"} =>
    /\ last.via = 5 <=> last.wait # "none"
    /\ last.via = 5 =>
         (last.op = "addToCartForced" <=> safeClick(page, addToCartButton).err # "ok")

\* the poll of the gate failed on a disabled button and the forced click
\* went through
C15_Witness ==
  /\ last.op = "addToCartForced"
  /\ last.wait \notin {"none", "ok"}
  /\ last.err = "ok" /\ last.node # 0

----------------------------------------------------------------------------
(* Properties of the runner scripts (SpecScripts) *)

\* C16: a runner script exits with status 0 exactly when the suite reported
\* that every scenario passed, and with another status in every other case.
\* Stated for a script that was asked to run the suite (not for --help).
C16_ExitZeroIffAllPassed ==
  (sh.script # "none" /\ sh.mode # "--help" /\ sh.at = "done")
    => (sh.exit = 0 <=> sh.suite = "passed")

\* C17: in both scripts the suite is invoked only after a probe of the
\* storefront has succeeded; a script that found the storefront unreachable
\* to the end exits with status 1 and has not invoked the suite.
C17_SuiteOnlyAfterProbe ==
  /\ (sh.at = "suite" \/ sh.suite # "none") => sh.probed
  /\ (sh.at = "done" /\ "not running" \in sh.out /\ ~sh.probed)
       => (sh.exit = 1 /\ sh.suite = "none")

\* run-smoke-tests.sh found the storefront down twice and gave up
C17_Witness ==
  /\ sh.script = "full" /\ sh.at = "done"
  /\ {"not running", "error"} \subseteq sh.out
  /\ ~sh.probed /\ sh.exit = 1 /\ sh.suite = "none"

\* C29: when the suite run by run-fast-smoke.sh ends with a status other
\* than 0, the script still reaches its result branch: it prints that some
\* smoke tests failed and then exits with that status.
C29_FastFailureReachesVerdict ==
  (sh.script = "fast" /\ sh.at = "done" /\ sh.suite = "failed")
  => /\ "some failed" \in sh.out
     /\ sh.exit = suiteExit(sh.suite)

----------------------------------------------------------------------------
(* Properties of a run of the suite (SpecSuite) *)

\* C18: no two scenarios execute at the same time, and the page objects a
\* scenario uses are bound to its own page: while a scenario runs all four
\* are bound to the page of that scenario, and so is every call it makes.
C18_OwnPagePerScenario ==
  /\ Cardinality(suite.running) <= 1
  /\ suite.running # {} =>
       /\ suite.page # 0
       /\ \A po \in PageObjects : suite.bound[po] = suite.page
       /\ suite.lastAct.po # "none" => suite.lastAct.on = suite.page

\* a later scenario calls a page object an earlier scenario had used
C18_Witness ==
  /\ suite.next > 1 /\ suite.running # {}
  /\ suite.lastAct.po # "none"
  /\ suite.lastAct.on = suite.pages /\ suite.pages > 1

\* C19: the outcome of a scenario does not depend on the outcome of the
\* others: in a run in which TC-004 fails and the bodies of the other
\* scenarios pass, the other scenarios run and are reported as passed.
C19_OthersPassWhileTC004Fails ==
  ( /\ Len(suite.reported) = Len(Scenarios)
    /\ suite.own[4] = "failed"
    /\ \A t \in 1..Len(Scenarios) : t # 4 => suite.own[t] = "passed" )
  => \A t \in 1..Len(Scenarios) : t # 4 => suite.reported[t] = "passed"

----------------------------------------------------------------------------
(* Properties of the fault-injection scripts (SpecFault) *)

\* C20: when the inject script has performed the injection and exits with
\* status 0, page.tsx is absent, page.tsx.disabled and page.tsx.backup are
\* present, and both hold what page.tsx held when the script started.
C20_InjectedFileState ==
  (fi.script = "inject" /\ fi.at = "done" /\ fi.exit = 0 /\ fi.injected)
  => /\ fs.page = Absent
     /\ fi.start.page # Absent
     /\ fs.disabled = fi.start.page
     /\ fs.backup = fi.start.page

\* an injection that replaced an older backup and an older disabled file
C20_Witness ==
  /\ fi.script = "inject" /\ fi.at = "done" /\ fi.exit = 0 /\ fi.injected
  /\ fi.start.backup \notin {Absent, fi.start.page}
  /\ fi.start.disabled \notin {Absent, fi.start.page}

\* the first script started with page.tsx alone: no backup, no disabled file
CleanStart ==
  /\ fi.first.page # Absent
  /\ fi.first.backup = Absent /\ fi.first.disabled = Absent

\* C21: from page.tsx present with neither a backup nor a disabled file, the
\* inject script followed by the restore script, with the deletion of the
\* backup confirmed, gives back the initial files: page.tsx with its
\* content, no page.tsx.disabled, no page.tsx.backup.
C21_InjectThenRestoreRoundTrip ==
  ( /\ CleanStart
    /\ fi.n = 2 /\ fi.prev.script = "inject" /\ fi.prev.exit = 0
    /\ fi.script = "restore" /\ fi.at = "done" /\ fi.exit = 0
    /\ fi.delete \notin {"none", "n", "N"} )
  => fs = fi.first

\* the restore after an injection has ended, the backup deleted on request
C21_Witness ==
  /\ CleanStart
  /\ fi.n = 2 /\ fi.prev.script = "inject" /\ fi.prev.exit = 0
  /\ fi.script = "restore" /\ fi.at = "done" /\ fi.exit = 0
  /\ fi.delete = "Y"
  /\ fi.cps = 1

\* C22: if the rename of the cart page fails during the injection, the
\* inject script reports the failure, copies the backup back to page.tsx
\* when the backup exists (a second cp), and exits with status 1.
C22_RenameFailureRollsBack ==
  (fi.script = "inject" /\ fi.at = "done" /\ fi.failed = "mv")
  => /\ "rename failed" \in fi.out
     /\ fs.backup # Absent => fi.cps = 2
     /\ fi.exit = 1

\* C23: the inject script overwrites a backup that is already there only
\* after the answer y or Y to its prompt; on any other answer (a line read
\* from the input) it exits with status 0 and leaves page.tsx,
\* page.tsx.backup and page.tsx.disabled as they were.
C23_BackupOverwriteNeedsYes ==
  (fi.script = "inject" /\ fi.start.backup # Absent)
  => /\ (fi.cps > 0 \/ fs # fi.start) => fi.answer \in {"y", "Y"}
     /\ fi.answer \notin {"none", "y", "Y", "eof"}
          => (fi.at = "done" /\ fi.exit = 0 /\ fs = fi.start)

\* an empty answer at the prompt ended the injection, an older backup kept
C23_Witness ==
  /\ fi.script = "inject" /\ fi.at = "done" /\ fi.answer = ""
  /\ fi.start.backup \notin {Absent, fi.start.page}
  /\ fs = fi.start

\* C25: the restore script run without a backup changes no file; it exits
\* with status 0 when page.tsx is there (as after a restore that deleted the
\* backup) and with status 1 when page.tsx is missing too.
C25_RestoreRepeatable ==
  (fi.script = "restore" /\ fi.at = "done" /\ fi.start.backup = Absent)
  => /\ fs = fi.start
     /\ fi.start.page # Absent => fi.exit = 0
     /\ fi.start.page = Absent => fi.exit = 1

\* the restore repeated after a restore that deleted the backup
C25_Witness ==
  /\ fi.n = 2 /\ fi.prev.script = "restore" /\ fi.prev.exit = 0
  /\ fi.first.backup # Absent
  /\ fi.script = "restore" /\ fi.at = "done" /\ fi.exit = 0
  /\ fi.start.backup = Absent /\ fi.start.page # Absent
  /\ fs = fi.start

\* C26: after any runs of the two scripts, whatever the answers and
\* whichever file operation fails, one of page.tsx, page.tsx.backup and
\* page.tsx.disabled still holds what page.tsx held at first, and page.tsx
\* exists whenever the restore script exits with status 0.
C26_OriginalContentKept ==
  CleanStart
  => /\ fi.first.page \in {fs.page, fs.backup, fs.disabled}
     /\ (fi.script = "restore" /\ fi.at = "done" /\ fi.exit = 0) => fs.page # Absent

----------------------------------------------------------------------------
(* Properties of the retry loops (SpecHelpers) *)

\* C24: GlobalTestUtils.retry with maxRetries >= 1 calls fn at most
\* maxRetries times, returns the result of the first call that succeeds
\* without calling fn again, waits baseDelay * 2^i after the failed attempt
\* i (from 0) before the next one, and after maxRetries failures raises the
\* error of the last attempt without one more wait.
C24_RetryBackoff ==
  (rt.fn = "retry" /\ rt.max >= 1)
  => /\ rt.calls <= rt.max
     /\ rt.waits = [k \in 1..Len(rt.waits) |-> rt.base * 2^(k - 1)]
     /\ rt.at = "returned" => (rt.ret = rt.calls /\ Len(rt.waits) = rt.calls - 1)
     /\ rt.at = "raised" =>
          (rt.calls = rt.max /\ rt.err = rt.max /\ Len(rt.waits) = rt.max - 1)

\* retry gave up after the last allowed attempt, having waited in between
C24_Witness ==
  /\ rt.fn = "retry" /\ rt.at = "raised" /\ rt.max = MaxRetries
  /\ rt.base = 1000 /\ Len(rt.waits) = MaxRetries - 1

\* C27: whenever TestHelpers.safeClick returns without raising the element
\* was clicked exactly once, and whenever no click went through it raises,
\* for every value of retries, retries <= 0 included.
C27_SafeClickClicksOrRaises ==
  (rt.fn = "safeClick" /\ rt.at \in {"returned", "raised"})
  => /\ rt.at = "returned" => rt.clicks = 1
     /\ rt.clicks = 0 => rt.at = "raised"

----------------------------------------------------------------------------
(* Properties of the optional steps (SpecOptional) *)

\* the locator of an optional check
UiLocator(name) == IF name = "navigation" THEN navigation ELSE footer

\* C28: a guarded optional action (setQuantity, selectColor,
\* continueShopping, removeFirstItem) never raises, and does nothing when
\* its probe does not find the element, also when the page changes between
\* the probe and the click or fill.
C28_GuardedActionsNeverRaise ==
  last.op \in DOMAIN Guarded =>
    /\ last.err = "ok"
    /\ ~last.ret => last.node = 0

\* C30: on an open page verifyNavigationVisible and verifyFooterVisible
\* pass exactly when no element matches or a matching element is visible;
\* elements that are attached and not visible make the check raise.
C30_OptionalCheckPassesIffAbsentOrVisible ==
  (last.op = "verifyVisible" /\ page.alive) =>
    LET m == MatchIdx(page.dom, UiLocator(last.loc).cands) IN
    last.err = "ok" <=> (m = << >> \/ \E k \in 1..Len(m) : page.dom[m[k]].vis)

====
